---- MODULE Spec2Model ----
(***************************************************************************)
(* The RADV shader-memory arena allocator of src/amd/vulkan/radv_shader.c: *)
(* radv_alloc_shader_memory, radv_free_shader_memory and their helpers,    *)
(* over the fields of struct radv_device that they use.                    *)
(*                                                                         *)
(* Heap objects (union radv_shader_arena_block, struct radv_shader_arena,  *)
(* winsys buffers) are numbered; 0 is the NULL pointer.  An intrusive list *)
(* is the sequence of the objects linked in it, head first.                *)
(***************************************************************************)
EXTENDS Integers, Sequences, FiniteSets, TLC

(***************************************************************************)
(* Program constants (radv_shader.h, which defines them, is not among the  *)
(* sources; the values are those of the header of this driver).            *)
(***************************************************************************)
RADV_SHADER_ALLOC_ALIGNMENT == 256

RADV_SHADER_ALLOC_MIN_ARENA_SIZE == 262144

RADV_SHADER_ALLOC_MAX_ARENA_SIZE_SHIFT == 5

RADV_SHADER_ALLOC_MIN_SIZE_CLASS == 8

RADV_SHADER_ALLOC_NUM_FREE_LISTS == 8

(***************************************************************************)
(* Bounds of the model.                                                    *)
(***************************************************************************)
\* callers hold at most this many blocks at a time
MaxLive == 2

\* the winsys creates at most this many buffers in a behaviour
MaxBos == 2

\* number of caller threads of the multi-threaded specification
NumThreads == 2

\* request sizes (bytes, before alignment) and owner tokens (0 is NULL)
ReqSizes == {24500, 237568, 262144}

Ptrs == {0, 1}

NULL == 0

VARIABLES
  dev,     \* struct radv_device: the allocator fields, the heap objects, the winsys
  held,    \* the blocks returned by radv_alloc_shader_memory and not yet freed
  mutex,   \* shader_arena_mutex: 0 when free, else the thread holding it
  thr,     \* per thread: the position in its current call and its locals
  fn,      \* the arguments and results of an application of get_size_class
  hist,    \* the calls a single caller's record keeps, oldest first
  life     \* radv_CreateDevice / radv_DestroyDevice: the place in the device's life

\* the variables that only the specifications of the callers change
callers == <<fn, hist, life>>

vars == <<dev, held, mutex, thr, fn, hist, life>>

----------------------------------------------------------------------------
(* Arithmetic and list helpers *)

MAX2(a, b) == IF a > b THEN a ELSE b

MIN2(a, b) == IF a < b THEN a ELSE b

\* the powers of two below 2^31, the words the model computes with
Pow2Table ==
  LET RECURSIVE tab(_)
      tab(n) == IF n = 0 THEN <<1>> ELSE LET t == tab(n - 1) IN Append(t, 2 * t[n])
  IN  tab(30)

Pow2(n) == Pow2Table[n + 1]

\* bit k of the word m (the words of the model are below 2^31: bits 0..30)
Bit(m, k) == (m \div Pow2(k)) % 2

\* align(value, alignment) on uint32_t: (value + alignment - 1) & ~(alignment - 1).
\* With value = q * alignment + r, the sum modulo 2^32 cleared of its low bits is
\* alignment * ((q + [r > 0]) mod (2^32 / alignment)); no intermediate exceeds 2^31.
\* the aligned value in units of the alignment, for value = q * alignment + r
align_units(q, r, alignment) ==
  LET words == (Pow2(30) \div alignment) * 4
  IN  (q + (IF r > 0 THEN 1 ELSE 0)) % words

align_split(q, r, alignment) == align_units(q, r, alignment) * alignment

align(value, alignment) == align_split(value \div alignment, value % alignment, alignment)

\* util_logbase2(n): position of the highest set bit of n | 1, found by halving
\* the width searched (16, 8, 4, 2, 1 bits)
util_logbase2(n) ==
  LET p16 == IF n >= 65536 THEN 16 ELSE 0
      n16 == IF n >= 65536 THEN n \div 65536 ELSE n
      p8  == IF n16 >= 256 THEN 8 ELSE 0
      n8  == IF n16 >= 256 THEN n16 \div 256 ELSE n16
      p4  == IF n8 >= 16 THEN 4 ELSE 0
      n4  == IF n8 >= 16 THEN n8 \div 16 ELSE n8
      p2  == IF n4 >= 4 THEN 2 ELSE 0
      n2  == IF n4 >= 4 THEN n4 \div 4 ELSE n4
  IN  p16 + p8 + p4 + p2 + (IF n2 >= 2 THEN 1 ELSE 0)

\* util_logbase2_ceil(n)
util_logbase2_ceil(n) == IF n <= 1 THEN 0 ELSE 1 + util_logbase2(n - 1)

\* BITFIELD_MASK(b)
BITFIELD_MASK(b) == Pow2(b) - 1

\* ffs(m): one plus the index of the lowest set bit, 0 when m = 0
RECURSIVE ffs(_)
ffs(m) == IF m = 0 THEN 0 ELSE IF m % 2 = 1 THEN 1 ELSE 1 + ffs(m \div 2)

\* a & b on words, bit by bit from the lowest
RECURSIVE BitAnd(_, _)
BitAnd(a, b) ==
  IF a = 0 \/ b = 0 THEN 0
  ELSE (IF a % 2 = 1 /\ b % 2 = 1 THEN 1 ELSE 0) + 2 * BitAnd(a \div 2, b \div 2)

\* (a << n) on a 32-bit word: the bits shifted out of the word are dropped
Shl(a, n) == IF n <= 1 THEN a * Pow2(n) ELSE (a % Pow2(32 - n)) * Pow2(n)

\* list_del: the list without item x
list_del(s, x) == SelectSeq(s, LAMBDA y : y # x)

\* list_addtail(item, head) with head the list head: append
list_addtail(s, x) == Append(s, x)

\* list_add(item, head): insert at the front
list_add(s, x) == <<x>> \o s

\* position of x in s (0 when absent)
IndexOf(s, x) == IF \E i \in 1..Len(s) : s[i] = x
                 THEN CHOOSE i \in 1..Len(s) : s[i] = x ELSE 0

\* list_addtail(item, &node->list): insert x right before node in s
list_insert_before(s, x, node) ==
  LET i == IndexOf(s, node)
  IN  SubSeq(s, 1, i - 1) \o <<x>> \o SubSeq(s, i, Len(s))

\* a fresh object number: the least positive number not in S
NewId(S) == CHOOSE i \in 1..(Cardinality(S) + 1) :
               i \notin S /\ \A j \in 1..(i - 1) : j \in S

Classes == 0..(RADV_SHADER_ALLOC_NUM_FREE_LISTS - 1)

----------------------------------------------------------------------------
(* The allocator's helpers *)

\* get_size_class without the MIN2 of its return statement
get_size_class_unclamped(size, round_up) ==
  LET l == IF round_up THEN util_logbase2_ceil(size) ELSE util_logbase2(size)
  IN  MAX2(l, RADV_SHADER_ALLOC_MIN_SIZE_CLASS) - RADV_SHADER_ALLOC_MIN_SIZE_CLASS

get_size_class(size, round_up) ==
  LET l == IF round_up THEN util_logbase2_ceil(size) ELSE util_logbase2(size)
      size_class == MAX2(l, RADV_SHADER_ALLOC_MIN_SIZE_CLASS)
                      - RADV_SHADER_ALLOC_MIN_SIZE_CLASS
  IN  MIN2(size_class, RADV_SHADER_ALLOC_NUM_FREE_LISTS - 1)

\* set or clear bit k of the mask
MaskSet(m, k) == IF Bit(m, k) = 1 THEN m ELSE m + Pow2(k)

MaskClear(m, k) == IF Bit(m, k) = 1 THEN m - Pow2(k) ELSE m

\* remove_hole: list_del(&hole->freelist) leaves freelist.prev = freelist.next = NULL
\* a plausible slip: the bit is cleared without looking at the list
remove_hole_always_clear(d, hole) ==
  LET size_class == get_size_class(d.block[hole].size, FALSE)
      lst == list_del(d.shader_free_lists[size_class], hole)
  IN  [d EXCEPT !.shader_free_lists[size_class] = lst,
                !.block[hole].freelist_prev = FALSE,
                !.block[hole].freelist_next = NULL,
                !.shader_free_list_mask = MaskClear(@, size_class)]

remove_hole(d, hole) ==
  LET size_class == get_size_class(d.block[hole].size, FALSE)
      lst == list_del(d.shader_free_lists[size_class], hole)
  IN  [d EXCEPT !.shader_free_lists[size_class] = lst,
                !.block[hole].freelist_prev = FALSE,
                !.block[hole].freelist_next = NULL,
                !.shader_free_list_mask =
                   IF lst = <<>> THEN MaskClear(@, size_class) ELSE @]

\* add_hole: list_addtail(&hole->freelist, ...) makes freelist.prev non-NULL
\* a plausible slip: the class is looked up with rounding up
add_hole_round_up(d, hole) ==
  LET size_class == get_size_class(d.block[hole].size, TRUE)
  IN  [d EXCEPT !.shader_free_lists[size_class] = list_addtail(@, hole),
                !.block[hole].freelist_prev = TRUE,
                !.block[hole].freelist_next = NULL,
                !.shader_free_list_mask = MaskSet(@, size_class)]

\* a plausible slip: the class is one too low
add_hole_class_below(d, hole) ==
  LET size_class == MAX2(get_size_class(d.block[hole].size, FALSE) - 1, 0)
  IN  [d EXCEPT !.shader_free_lists[size_class] = list_addtail(@, hole),
                !.block[hole].freelist_prev = TRUE,
                !.block[hole].freelist_next = NULL,
                !.shader_free_list_mask = MaskSet(@, size_class)]

add_hole(d, hole) ==
  LET size_class == get_size_class(d.block[hole].size, FALSE)
  IN  [d EXCEPT !.shader_free_lists[size_class] = list_addtail(@, hole),
                !.block[hole].freelist_prev = TRUE,
                !.block[hole].freelist_next = NULL,
                !.shader_free_list_mask = MaskSet(@, size_class)]

\* a block object as malloc returns it (every field is written before it is read)
RawBlock == [arena |-> NULL, offset |-> 0, size |-> 0,
             freelist_prev |-> FALSE, freelist_next |-> NULL]

\* alloc_block_obj: <<device, block>>; malloc_ok is whether malloc succeeds
\* a plausible slip: a block object is always taken from the host
alloc_block_obj_always_malloc(d, malloc_ok) ==
  IF malloc_ok
  THEN LET b == NewId(DOMAIN d.block)
       IN  <<[d EXCEPT !.block = @ @@ (b :> RawBlock)], b>>
  ELSE <<d, NULL>>

alloc_block_obj(d, malloc_ok) ==
  IF d.shader_block_obj_pool # <<>>
  THEN <<[d EXCEPT !.shader_block_obj_pool = Tail(@)], Head(d.shader_block_obj_pool)>>
  ELSE IF malloc_ok
       THEN LET b == NewId(DOMAIN d.block)
            IN  <<[d EXCEPT !.block = @ @@ (b :> RawBlock)], b>>
       ELSE <<d, NULL>>

\* free_block_obj: list_add(&block->pool, &device->shader_block_obj_pool).
\* The other fields of a pooled object are dead (each is written again before
\* it is read), so the model clears them.
free_block_obj(d, block) ==
  [d EXCEPT !.shader_block_obj_pool = list_add(@, block),
            !.block[block] = RawBlock]

\* free(block) of the host allocator; free(NULL) does nothing
host_free_block(d, block) ==
  IF block = NULL THEN d
  ELSE [d EXCEPT !.block = [x \in (DOMAIN @) \ {block} |-> @[x]]]

----------------------------------------------------------------------------
(* The winsys (device->ws).  Buffers are numbered in creation order and a  *)
(* number is never used again; ws.bo holds the live buffers, ws.created the *)
(* number created so far, ws.misuse the calls made on a buffer that is not  *)
(* live (a second destroy, a map after destroy).  A winsys that has the      *)
(* field ws.log keeps in it the calls made, oldest first.                   *)

\* the spacing of the buffers' addresses: no arena of the model is larger
BufferStride ==
  RADV_SHADER_ALLOC_MIN_ARENA_SIZE * Pow2(RADV_SHADER_ALLOC_MAX_ARENA_SIZE_SHIFT)

\* the call op on the buffer bo, written to the log of a winsys that has one
ws_log(d, op, bo) ==
  IF "log" \in DOMAIN d.ws THEN [d EXCEPT !.ws.log = Append(@, <<op, bo>>)] ELSE d

\* buffer_create
buffer_create(d, size) ==
  ws_log([d EXCEPT !.ws.created = @ + 1,
                   !.ws.bo = @ @@ ((d.ws.created + 1) :> [size |-> size, mapped |-> FALSE])],
         "create", d.ws.created + 1)

\* buffer_map
buffer_map(d, bo) ==
  ws_log(IF bo \in DOMAIN d.ws.bo THEN [d EXCEPT !.ws.bo[bo].mapped = TRUE]
         ELSE [d EXCEPT !.ws.misuse = @ + 1],
         "map", bo)

\* buffer_destroy
buffer_destroy(d, bo) ==
  ws_log(IF bo \in DOMAIN d.ws.bo
         THEN [d EXCEPT !.ws.bo = [x \in (DOMAIN @) \ {bo} |-> @[x]]]
         ELSE [d EXCEPT !.ws.misuse = @ + 1],
         "destroy", bo)

\* radv_buffer_get_va: the backend hands out disjoint address ranges
radv_buffer_get_va(bo) == bo * BufferStride

----------------------------------------------------------------------------
(* radv_alloc_shader_memory *)

\* The environment of one call: which host and winsys requests succeed.
\* malloc_ok[i] is the outcome of the i-th malloc of a block object.
EnvOk == [calloc_ok |-> TRUE, create_ok |-> TRUE, map_ok |-> TRUE,
          malloc_ok |-> <<TRUE, TRUE>>]

Envs == {EnvOk,
         [EnvOk EXCEPT !.calloc_ok = FALSE],
         [EnvOk EXCEPT !.create_ok = FALSE],
         [EnvOk EXCEPT !.map_ok = FALSE],
         [EnvOk EXCEPT !.malloc_ok = <<FALSE, TRUE>>],
         [EnvOk EXCEPT !.malloc_ok = <<TRUE, FALSE>>],
         [EnvOk EXCEPT !.malloc_ok = <<FALSE, FALSE>>]}

\* The result of the locked part of a call: the device, the value to return,
\* whether control went to the label fail, and the locals the label uses.
Result(d, ret, failed, alloc, hole, arena) ==
  [dev |-> d, ret |-> ret, failed |-> failed,
   alloc |-> alloc, hole |-> hole, arena |-> arena]

\* a plausible slip: the search starts one class too high
find_hole_class_above(d, size) ==
  LET free_list_mask == BITFIELD_MASK(RADV_SHADER_ALLOC_NUM_FREE_LISTS)
      size_class == ffs(BitAnd(d.shader_free_list_mask,
                               Shl(free_list_mask, get_size_class(size, TRUE) + 1)))
  IN  IF size_class = 0 THEN NULL
      ELSE LET lst == d.shader_free_lists[size_class - 1]
               fit == {i \in 1..Len(lst) : d.block[lst[i]].size >= size}
           IN  IF fit = {} THEN NULL
               ELSE lst[CHOOSE i \in fit : \A j \in fit : i <= j]

\* a plausible slip: the last hole that is large enough is taken
find_hole_last_fit(d, size) ==
  LET free_list_mask == BITFIELD_MASK(RADV_SHADER_ALLOC_NUM_FREE_LISTS)
      size_class == ffs(BitAnd(d.shader_free_list_mask,
                               Shl(free_list_mask, get_size_class(size, TRUE))))
  IN  IF size_class = 0 THEN NULL
      ELSE LET lst == d.shader_free_lists[size_class - 1]
               fit == {i \in 1..Len(lst) : d.block[lst[i]].size >= size}
           IN  IF fit = {} THEN NULL
               ELSE lst[CHOOSE i \in fit : \A j \in fit : i >= j]

\* The search for a hole: the free list of the lowest non-empty class at or
\* above get_size_class(size, true), scanned for its first hole that is
\* large enough.  NULL when there is none.
find_hole(d, size) ==
  LET free_list_mask == BITFIELD_MASK(RADV_SHADER_ALLOC_NUM_FREE_LISTS)
      size_class == ffs(BitAnd(d.shader_free_list_mask,
                               Shl(free_list_mask, get_size_class(size, TRUE))))
  IN  IF size_class = 0 THEN NULL
      ELSE LET lst == d.shader_free_lists[size_class - 1]
               fit == {i \in 1..Len(lst) : d.block[lst[i]].size >= size}
           IN  IF fit = {} THEN NULL
               ELSE lst[CHOOSE i \in fit : \A j \in fit : i <= j]

\* a plausible slip: the hole is shrunk but not moved
shrink_hole_size_only(d, hole, size) ==
  [d EXCEPT !.block[hole].size = @ - size]

\* a plausible slip: the hole is moved but not shrunk
shrink_hole_offset_only(d, hole, size) ==
  [d EXCEPT !.block[hole].offset = @ + size]

\* hole->offset += size; hole->size -= size;
shrink_hole(d, hole, size) ==
  [d EXCEPT !.block[hole].offset = @ + size,
            !.block[hole].size = @ - size]

\* a plausible slip: the exact fit forgets hole->freelist.next = ptr
alloc_from_hole_no_owner(d, hole, size, ptr, env) ==
  IF size = d.block[hole].size
  THEN LET d1 == remove_hole(d, hole)
       IN  Result(d1, hole, FALSE, NULL, NULL, NULL)
  ELSE LET r     == alloc_block_obj(d, env.malloc_ok[1])
           alloc == r[2]
       IN  IF alloc = NULL
           THEN Result(r[1], NULL, FALSE, NULL, NULL, NULL)
           ELSE LET ar == d.block[hole].arena
                    d1 == [r[1] EXCEPT
                             !.arena[ar].entries = list_insert_before(@, alloc, hole),
                             !.block[alloc] = [arena |-> ar,
                                               offset |-> d.block[hole].offset,
                                               size |-> size,
                                               freelist_prev |-> FALSE,
                                               freelist_next |-> ptr]]
                    d2 == remove_hole(d1, hole)
                    d3 == shrink_hole(d2, hole, size)
                IN  Result(add_hole(d3, hole), alloc, FALSE, NULL, NULL, NULL)

\* The body of the loop for the hole found: the whole hole, or its front part.
alloc_from_hole(d, hole, size, ptr, env) ==
  IF size = d.block[hole].size
  THEN LET d1 == remove_hole(d, hole)
       IN  Result([d1 EXCEPT !.block[hole].freelist_next = ptr],
                  hole, FALSE, NULL, NULL, NULL)
  ELSE LET r     == alloc_block_obj(d, env.malloc_ok[1])
           alloc == r[2]
       IN  IF alloc = NULL
           THEN Result(r[1], NULL, FALSE, NULL, NULL, NULL)
           ELSE LET ar == d.block[hole].arena
                    d1 == [r[1] EXCEPT
                             !.arena[ar].entries = list_insert_before(@, alloc, hole),
                             !.block[alloc] = [arena |-> ar,
                                               offset |-> d.block[hole].offset,
                                               size |-> size,
                                               freelist_prev |-> FALSE,
                                               freelist_next |-> ptr]]
                    d2 == remove_hole(d1, hole)
                    d3 == shrink_hole(d2, hole, size)
                IN  Result(add_hole(d3, hole), alloc, FALSE, NULL, NULL, NULL)

\* a plausible slip: the growth of the arenas is not capped
new_arena_size_unclamped(d, size) ==
  MAX2(Shl(RADV_SHADER_ALLOC_MIN_ARENA_SIZE, d.shader_arena_shift), size)

\* the size of the arena a call for size bytes creates
new_arena_size(d, size) ==
  MAX2(Shl(RADV_SHADER_ALLOC_MIN_ARENA_SIZE,
           MIN2(RADV_SHADER_ALLOC_MAX_ARENA_SIZE_SHIFT, d.shader_arena_shift)),
       size)

\* a plausible slip: the rest of a new arena is linked but not filed as a hole
alloc_new_arena_rest_unfiled(d, size, ptr, env) ==
  IF ~env.calloc_ok THEN Result(d, NULL, TRUE, NULL, NULL, NULL)
  ELSE
  LET arena == NewId(DOMAIN d.arena)
      d0 == [d EXCEPT !.arena = @ @@ (arena :> [bo |-> NULL, ptr |-> NULL,
                                                 entries |-> <<>>])]
      arena_size == new_arena_size(d, size)
  IN
  IF ~env.create_ok THEN Result(d0, NULL, TRUE, NULL, NULL, arena)
  ELSE
  LET bo == d.ws.created + 1
      d1 == [buffer_create(d0, arena_size) EXCEPT !.arena[arena].bo = bo]
  IN
  IF ~env.map_ok THEN Result(d1, NULL, TRUE, NULL, NULL, arena)
  ELSE
  LET d2 == [buffer_map(d1, bo) EXCEPT !.arena[arena].ptr = bo]
      ra == alloc_block_obj(d2, env.malloc_ok[1])
      alloc == ra[2]
      rh == IF arena_size # size    \* unsigned: arena_size - size > 0
            THEN alloc_block_obj(ra[1], env.malloc_ok[2]) ELSE ra
      hole == rh[2]
      d3 == rh[1]
  IN
  IF alloc = NULL \/ hole = NULL THEN Result(d3, NULL, TRUE, alloc, hole, arena)
  ELSE
  LET d4 == [d3 EXCEPT !.arena[arena].entries = list_addtail(@, alloc),
                       !.block[alloc] = [arena |-> arena, offset |-> 0, size |-> size,
                                         freelist_prev |-> FALSE,
                                         freelist_next |-> ptr]]
      d5 == IF hole # alloc
            THEN [d4 EXCEPT
                    !.block[hole].arena = arena,
                    !.block[hole].offset = size,
                    !.block[hole].size = arena_size - size,
                    !.arena[arena].entries = list_addtail(@, hole)]
            ELSE d4
  IN  Result([d5 EXCEPT !.shader_arena_shift = @ + 1,
                        !.shader_arenas = list_addtail(@, arena)],
             alloc, FALSE, NULL, NULL, NULL)

\* "Allocate a new shader arena", up to the unlock of either outcome.
alloc_new_arena(d, size, ptr, env) ==
  IF ~env.calloc_ok THEN Result(d, NULL, TRUE, NULL, NULL, NULL)
  ELSE
  LET arena == NewId(DOMAIN d.arena)
      d0 == [d EXCEPT !.arena = @ @@ (arena :> [bo |-> NULL, ptr |-> NULL,
                                                 entries |-> <<>>])]
      arena_size == new_arena_size(d, size)
  IN
  IF ~env.create_ok THEN Result(d0, NULL, TRUE, NULL, NULL, arena)
  ELSE
  LET bo == d.ws.created + 1
      d1 == [buffer_create(d0, arena_size) EXCEPT !.arena[arena].bo = bo]
  IN
  IF ~env.map_ok THEN Result(d1, NULL, TRUE, NULL, NULL, arena)
  ELSE
  LET d2 == [buffer_map(d1, bo) EXCEPT !.arena[arena].ptr = bo]
      ra == alloc_block_obj(d2, env.malloc_ok[1])
      alloc == ra[2]
      rh == IF arena_size # size    \* unsigned: arena_size - size > 0
            THEN alloc_block_obj(ra[1], env.malloc_ok[2]) ELSE ra
      hole == rh[2]
      d3 == rh[1]
  IN
  IF alloc = NULL \/ hole = NULL THEN Result(d3, NULL, TRUE, alloc, hole, arena)
  ELSE
  LET d4 == [d3 EXCEPT !.arena[arena].entries = list_addtail(@, alloc),
                       !.block[alloc] = [arena |-> arena, offset |-> 0, size |-> size,
                                         freelist_prev |-> FALSE,
                                         freelist_next |-> ptr]]
      d5 == IF hole # alloc
            THEN add_hole([d4 EXCEPT
                             !.block[hole].arena = arena,
                             !.block[hole].offset = size,
                             !.block[hole].size = arena_size - size,
                             !.arena[arena].entries = list_addtail(@, hole)],
                          hole)
            ELSE d4
  IN  Result([d5 EXCEPT !.shader_arena_shift = @ + 1,
                        !.shader_arenas = list_addtail(@, arena)],
             alloc, FALSE, NULL, NULL, NULL)

\* free(arena) of the host allocator
host_free_arena(d, arena) ==
  IF arena = NULL THEN d
  ELSE [d EXCEPT !.arena = [x \in (DOMAIN @) \ {arena} |-> @[x]]]

\* a plausible slip: the buffer of the attempted arena is not destroyed
alloc_fail_cleanup_leak_bo(d, r) ==
  host_free_arena(host_free_block(host_free_block(d, r.alloc),
                                  IF r.hole = r.alloc THEN NULL ELSE r.hole),
                  r.arena)

\* a plausible slip: the block objects are not released
alloc_fail_cleanup_leak_block(d, r) ==
  LET d2 == IF r.arena # NULL /\ d.arena[r.arena].bo # NULL
            THEN buffer_destroy(d, d.arena[r.arena].bo) ELSE d
  IN  host_free_arena(d2, r.arena)

\* a plausible slip: the buffer is destroyed only when it was mapped
alloc_fail_cleanup_mapped_only(d, r) ==
  LET d1 == host_free_block(host_free_block(d, r.alloc),
                            IF r.hole = r.alloc THEN NULL ELSE r.hole)
      d2 == IF r.arena # NULL /\ d1.arena[r.arena].ptr # NULL
            THEN buffer_destroy(d1, d1.arena[r.arena].bo) ELSE d1
  IN  host_free_arena(d2, r.arena)

\* The statements of the label fail that follow its mtx_unlock.
alloc_fail_cleanup(d, r) ==
  LET d1 == host_free_block(host_free_block(d, r.alloc),
                            IF r.hole = r.alloc THEN NULL ELSE r.hole)
      d2 == IF r.arena # NULL /\ d1.arena[r.arena].bo # NULL
            THEN buffer_destroy(d1, d1.arena[r.arena].bo) ELSE d1
  IN  host_free_arena(d2, r.arena)

\* The part of the call that runs between mtx_lock and mtx_unlock, for a size
\* already aligned and the hole the search found.
alloc_locked(d, hole, size, ptr, env) ==
  IF hole # NULL THEN alloc_from_hole(d, hole, size, ptr, env)
  ELSE alloc_new_arena(d, size, ptr, env)

\* The label fail, when the locked part went to it.
alloc_return(r) ==
  IF r.failed THEN [r EXCEPT !.dev = alloc_fail_cleanup(r.dev, r)] ELSE r

\* The call for a size already aligned.
alloc_aligned(d, size, ptr, env) ==
  alloc_return(alloc_locked(d, find_hole(d, size), size, ptr, env))

\* The whole call.
radv_alloc_shader_memory(d, size0, ptr, env) ==
  alloc_aligned(d, align(size0, RADV_SHADER_ALLOC_ALIGNMENT), ptr, env)

\* The whole call for any uint32_t size, given as its quotient and remainder
\* by the alignment (sizes of 2^31 and more are not numbers of the model).
radv_alloc_shader_memory_split(d, q, r, ptr, env) ==
  alloc_aligned(d, align_split(q, r, RADV_SHADER_ALLOC_ALIGNMENT), ptr, env)

----------------------------------------------------------------------------
(* radv_free_shader_memory *)

\* a plausible slip: a neighbour counts as a hole whatever its tag
get_hole_any_tag(d, arena, i) ==
  LET entries == d.arena[arena].entries
  IN  IF i < 1 \/ i > Len(entries) THEN NULL ELSE entries[i]

\* get_hole, for the i-th position of the arena's entries; positions 0 and
\* Len + 1 are the list head &arena->entries.
get_hole(d, arena, i) ==
  LET entries == d.arena[arena].entries
  IN  IF i < 1 \/ i > Len(entries) THEN NULL
      ELSE IF d.block[entries[i]].freelist_prev THEN entries[i] ELSE NULL

\* list_is_singular(&hole->list): hole is the only block of its arena
list_is_singular(d, hole) == Len(d.arena[d.block[hole].arena].entries) = 1

\* "merge with previous hole"
\* a plausible slip: the descriptor absorbed is unlinked but not pooled
merge_prev_unpooled(d, hole, hole_prev) ==
  LET d1 == remove_hole(d, hole_prev)
      ar == d.block[hole].arena
  IN  [d1 EXCEPT !.block[hole_prev].size = @ + d.block[hole].size,
                 !.arena[ar].entries = list_del(@, hole)]

merge_prev(d, hole, hole_prev) ==
  LET d1 == remove_hole(d, hole_prev)
      ar == d.block[hole].arena
      d2 == [d1 EXCEPT !.block[hole_prev].size = @ + d.block[hole].size,
                       !.arena[ar].entries = list_del(@, hole)]
  IN  free_block_obj(d2, hole)

\* a plausible slip: the merged hole keeps the offset of the next hole
merge_next_keep_offset(d, hole, hole_next) ==
  LET d1 == remove_hole(d, hole_next)
      ar == d.block[hole].arena
      d2 == [d1 EXCEPT !.block[hole_next].size = @ + d.block[hole].size,
                       !.arena[ar].entries = list_del(@, hole)]
  IN  free_block_obj(d2, hole)

\* a plausible slip: the merged hole moves down but does not grow
merge_next_keep_size(d, hole, hole_next) ==
  LET d1 == remove_hole(d, hole_next)
      ar == d.block[hole].arena
      d2 == [d1 EXCEPT !.block[hole_next].offset = @ - d.block[hole].size,
                       !.arena[ar].entries = list_del(@, hole)]
  IN  free_block_obj(d2, hole)

\* "merge with next hole"
merge_next(d, hole, hole_next) ==
  LET d1 == remove_hole(d, hole_next)
      ar == d.block[hole].arena
      d2 == [d1 EXCEPT !.block[hole_next].offset = @ - d.block[hole].size,
                       !.block[hole_next].size = @ + d.block[hole].size,
                       !.arena[ar].entries = list_del(@, hole)]
  IN  free_block_obj(d2, hole)

\* a plausible slip: the empty arena is unlinked but its buffer is kept
free_finish_no_destroy(d, hole) ==
  IF list_is_singular(d, hole)
  THEN LET arena == d.block[hole].arena
           d1 == free_block_obj(d, hole)
           d3 == [d1 EXCEPT !.shader_arenas = list_del(@, arena)]
       IN  host_free_arena(d3, arena)
  ELSE add_hole(d, hole)

\* a plausible slip: the hole that stays in its arena is not filed
free_finish_unfiled(d, hole) ==
  IF list_is_singular(d, hole)
  THEN LET arena == d.block[hole].arena
           d1 == free_block_obj(d, hole)
           d2 == buffer_destroy(d1, d1.arena[arena].bo)
           d3 == [d2 EXCEPT !.shader_arenas = list_del(@, arena)]
       IN  host_free_arena(d3, arena)
  ELSE [d EXCEPT !.block[hole].freelist_prev = TRUE]

\* the tail of the call: destroy the arena that became empty, or file the hole
\* a plausible slip: the arena is destroyed when the hole is its first block
free_finish_first_entry(d, hole) ==
  IF d.arena[d.block[hole].arena].entries[1] = hole
  THEN LET arena == d.block[hole].arena
           d1 == free_block_obj(d, hole)
           d2 == buffer_destroy(d1, d1.arena[arena].bo)
           d3 == [d2 EXCEPT !.shader_arenas = list_del(@, arena)]
       IN  host_free_arena(d3, arena)
  ELSE add_hole(d, hole)

\* a plausible slip: destroying an arena takes the growth back
free_finish_shift_back(d, hole) ==
  IF list_is_singular(d, hole)
  THEN LET arena == d.block[hole].arena
           d1 == free_block_obj(d, hole)
           d2 == buffer_destroy(d1, d1.arena[arena].bo)
           d3 == [d2 EXCEPT !.shader_arenas = list_del(@, arena),
                            !.shader_arena_shift = @ - 1]
       IN  host_free_arena(d3, arena)
  ELSE add_hole(d, hole)

free_finish(d, hole) ==
  IF list_is_singular(d, hole)
  THEN LET arena == d.block[hole].arena
           d1 == free_block_obj(d, hole)
           d2 == buffer_destroy(d1, d1.arena[arena].bo)
           d3 == [d2 EXCEPT !.shader_arenas = list_del(@, arena)]
       IN  host_free_arena(d3, arena)
  ELSE add_hole(d, hole)

\* a plausible slip: the next neighbour is not looked at
free_neighbours_prev_only(d, alloc) ==
  LET arena == d.block[alloc].arena
      i == IndexOf(d.arena[arena].entries, alloc)
  IN  <<get_hole(d, arena, i - 1), NULL>>

\* the neighbours the call reads first: <<hole_prev, hole_next>>
free_neighbours(d, alloc) ==
  LET arena == d.block[alloc].arena
      i == IndexOf(d.arena[arena].entries, alloc)
  IN  <<get_hole(d, arena, i - 1), get_hole(d, arena, i + 1)>>

\* the merges and the tail, for the neighbours read
free_locked(d, alloc, hole_prev, hole_next) ==
  LET d1 == IF hole_prev # NULL THEN merge_prev(d, alloc, hole_prev) ELSE d
      h1 == IF hole_prev # NULL THEN hole_prev ELSE alloc
      d2 == IF hole_next # NULL THEN merge_next(d1, h1, hole_next) ELSE d1
      h2 == IF hole_next # NULL THEN hole_next ELSE h1
  IN  free_finish(d2, h2)

\* The whole call.
radv_free_shader_memory(d, alloc) ==
  LET n == free_neighbours(d, alloc)
  IN  free_locked(d, alloc, n[1], n[2])

----------------------------------------------------------------------------
(* Object numbers are names only: no statement of the program depends on   *)
(* the value of a pointer.  After each step the objects are renumbered in  *)
(* list order (arenas as in shader_arenas; blocks as in the arenas'        *)
(* entries, then the pool, then the rest), so that two states that differ  *)
(* only in the numbering are one state.                                     *)

\* s without repeated elements, first occurrences kept
Dedup(s) ==
  LET RECURSIVE go(_, _)
      go(i, acc) == IF i > Len(s) THEN acc
                    ELSE go(i + 1, IF \E k \in 1..Len(acc) : acc[k] = s[i]
                                   THEN acc ELSE Append(acc, s[i]))
  IN  go(1, <<>>)

\* the elements of the set S of numbers, ascending
Sorted(S) ==
  LET RECURSIVE go(_)
      go(T) == IF T = {} THEN <<>>
               ELSE LET m == CHOOSE x \in T : \A y \in T : x <= y
                    IN  <<m>> \o go(T \ {m})
  IN  go(S)

\* concatenation of the sequences f[s[1]], f[s[2]], ...
Flatten(s, f) ==
  LET RECURSIVE go(_)
      go(i) == IF i > Len(s) THEN <<>> ELSE f[s[i]] \o go(i + 1)
  IN  go(1)

\* the renumbering that puts the sequence order first and the rest of S after
PermOf(order, S) ==
  LET o == Dedup(SelectSeq(order, LAMBDA x : x \in S))
      rest == Sorted(S \ {o[i] : i \in 1..Len(o)})
      all == o \o rest
  IN  [x \in S |-> CHOOSE i \in 1..Len(all) : all[i] = x]

ArenaPerm(d) == PermOf(d.shader_arenas, DOMAIN d.arena)

BlockPerm(d) ==
  PermOf(Flatten(SelectSeq(d.shader_arenas, LAMBDA a : a \in DOMAIN d.arena),
                 [a \in DOMAIN d.arena |-> d.arena[a].entries])
           \o d.shader_block_obj_pool,
         DOMAIN d.block)

\* the new number of object x (NULL and dangling numbers are kept)
Ren(p, x) == IF x \in DOMAIN p THEN p[x] ELSE x

RenSeq(p, s) == [i \in 1..Len(s) |-> Ren(p, s[i])]

\* the device with its blocks renumbered by pb and its arenas by pa
Rename(d, pb, pa) ==
  [d EXCEPT
     !.shader_arenas = RenSeq(pa, @),
     !.shader_free_lists = [k \in Classes |-> RenSeq(pb, @[k])],
     !.shader_block_obj_pool = RenSeq(pb, @),
     !.arena = [n \in {pa[a] : a \in DOMAIN @} |->
                  LET a == CHOOSE x \in DOMAIN @ : pa[x] = n
                  IN  [@[a] EXCEPT !.entries = RenSeq(pb, @)]],
     !.block = [n \in {pb[b] : b \in DOMAIN @} |->
                  LET b == CHOOSE x \in DOMAIN @ : pb[x] = n
                  IN  [@[b] EXCEPT !.arena = Ren(pa, @)]]]

----------------------------------------------------------------------------
(* radv_destroy_shader_arenas *)

\* a plausible slip: the loop stops after the first arena
radv_destroy_shader_arenas_first_only(d) ==
  LET RECURSIVE free_pool(_, _)
      free_pool(x, i) ==
        IF i > Len(d.shader_block_obj_pool) THEN x
        ELSE free_pool(host_free_block(x, d.shader_block_obj_pool[i]), i + 1)
  IN  IF d.shader_arenas = <<>> THEN free_pool(d, 1)
      ELSE host_free_arena(buffer_destroy(free_pool(d, 1),
                                          d.arena[d.shader_arenas[1]].bo),
                           d.shader_arenas[1])

\* radv_destroy_shader_arenas: free() of every pooled block object, then
\* buffer_destroy and free() of every arena of the list.  The list heads are
\* not written again (they keep the freed objects' numbers), and the blocks
\* still linked in the arenas are not freed.
RECURSIVE destroy_free_pool(_, _, _)
destroy_free_pool(x, pool, i) ==
  IF i > Len(pool) THEN x
  ELSE destroy_free_pool(host_free_block(x, pool[i]), pool, i + 1)

RECURSIVE destroy_free_arenas(_, _, _)
destroy_free_arenas(x, arenas, i) ==
  IF i > Len(arenas) THEN x
  ELSE destroy_free_arenas(host_free_arena(buffer_destroy(x, x.arena[arenas[i]].bo),
                                           arenas[i]),
                           arenas, i + 1)

radv_destroy_shader_arenas(d) ==
  destroy_free_arenas(destroy_free_pool(d, d.shader_block_obj_pool, 1),
                      d.shader_arenas, 1)

----------------------------------------------------------------------------
(* radv_find_shader *)

\* What a lookup ends with: the value returned (the owner whose shader holds
\* pc, or NULL), how it ended ("none": it returned; "crash": it did not), and
\* the number of mtx_unlock calls it made.
FindResult(ret, fault, unlocks) == [ret |-> ret, fault |-> fault, unlocks |-> unlocks]

\* pipeline->shaders[i] read through a NULL pipeline: undefined behaviour.  The
\* read faults, or it yields whatever lies at that address.
null_pipeline_read(unlocks) ==
  {FindResult(NULL, "crash", unlocks)}
    \cup {FindResult(p, "none", unlocks) : p \in Ptrs \cup {NULL}}

\* The outcomes of radv_find_shader(device, pc).  match is whether one of the
\* shaders of the owning pipeline holds pc (the pipeline is not the
\* allocator's).  The loops go on after a block whose pipeline has no such
\* shader, the mutex already unlocked.
radv_find_shader(d, pc, match) ==
  LET blocks == Flatten(d.shader_arenas, [a \in DOMAIN d.arena |-> d.arena[a].entries])
      RECURSIVE scan(_, _)
      scan(i, unlocks) ==
        IF i > Len(blocks) THEN {FindResult(NULL, "none", unlocks + 1)}
        ELSE LET block == d.block[blocks[i]]
                 start == radv_buffer_get_va(d.arena[block.arena].bo) + block.offset
             IN  IF ~block.freelist_prev /\ pc >= start /\ pc < start + block.size
                 THEN IF block.freelist_next = NULL
                      THEN null_pipeline_read(unlocks + 1)
                      ELSE IF match
                           THEN {FindResult(block.freelist_next, "none", unlocks + 1)}
                           ELSE scan(i + 1, unlocks + 1)
                 ELSE scan(i + 1, unlocks)
  IN  scan(1, 0)

----------------------------------------------------------------------------
(* radv_init_shader_arenas, and the sequential specification *)

radv_init_shader_arenas ==
  [shader_arenas |-> <<>>,
   shader_free_lists |-> [k \in Classes |-> <<>>],
   shader_free_list_mask |-> 0,
   shader_arena_shift |-> 0,
   shader_block_obj_pool |-> <<>>,
   arena |-> <<>>,
   block |-> <<>>,
   ws |-> [bo |-> <<>>, created |-> 0, misuse |-> 0]]

Threads == 1..NumThreads

\* what a call keeps of the locked part's result once the device is stored
NoResult == Result(0, NULL, FALSE, NULL, NULL, NULL)

\* A thread between calls.  pc is the thread's place in its call; size, ptr
\* and alloc are the call's arguments; hole, hole_prev and hole_next the
\* locals read under the mutex; res the outcome of the locked part; env what
\* the host and the winsys did in it; mine the blocks the thread holds; snap
\* the device as it was when the thread took the mutex.
IdleThread == [pc |-> "idle", size |-> 0, ptr |-> NULL, env |-> EnvOk,
               alloc |-> NULL, hole |-> NULL, hole_prev |-> NULL, hole_next |-> NULL,
               res |-> NoResult, mine |-> {}, snap |-> 0,
               probe |-> 0, blk |-> NULL, locks |-> 0, unlocks |-> 0]

\* get_size_class has not been applied
NoCall == [called |-> FALSE]

\* the place of no block: what a caller has of an alloc that returned NULL
NoPlace == <<0, 0>>

\* no device: radv_CreateDevice has not been called.  pc is the place in the
\* device's life; inits and teardowns count the calls of
\* radv_init_shader_arenas and radv_destroy_shader_arenas; early and late
\* tell whether an alloc or free ran before the first or after the second;
\* alloc_null whether an alloc of a caller returned NULL; fault what went
\* wrong in a caller; trap and prologs where the blocks of the trap handler
\* shader and of the vertex shader prologs are.
NoDevice == [pc |-> "none", inits |-> 0, teardowns |-> 0, early |-> FALSE,
             late |-> FALSE, alloc_null |-> FALSE, fault |-> "none",
             trap |-> NoPlace, prologs |-> <<>>]

\* The allocator as radv_init_shader_arenas leaves it, nothing held, no call
\* in progress.
Quiescent ==
  /\ dev = radv_init_shader_arenas
  /\ held = {}
  /\ mutex = 0
  /\ thr = [t \in Threads |-> IdleThread]

Init ==
  /\ Quiescent
  /\ fn = NoCall
  /\ hist = <<>>
  /\ life = NoDevice

\* the same with a winsys that keeps the log of its calls
InitLogged ==
  /\ dev = [radv_init_shader_arenas EXCEPT !.ws = @ @@ [log |-> <<>>]]
  /\ held = {}
  /\ mutex = 0
  /\ thr = [t \in Threads |-> IdleThread]
  /\ fn = NoCall
  /\ hist = <<>>
  /\ life = NoDevice

\* Which of its paths a call to radv_alloc_shader_memory takes: a hole used
\* whole ("exact"), a hole split ("split"), a new arena ("arena"), or the
\* failure it ends with.
alloc_path(d, size0, env) ==
  LET size == align(size0, RADV_SHADER_ALLOC_ALIGNMENT)
      hole == find_hole(d, size)
  IN  IF hole # NULL
      THEN IF d.block[hole].size = size THEN "exact"
           ELSE IF d.shader_block_obj_pool = <<>> /\ ~env.malloc_ok[1]
                THEN "split_nomem" ELSE "split"
      ELSE IF ~env.calloc_ok THEN "calloc_failed"
      ELSE IF ~env.create_ok THEN "create_failed"
      ELSE IF ~env.map_ok THEN "map_failed"
      ELSE IF alloc_new_arena(d, size, NULL, env).failed THEN "arena_nomem"
      ELSE "arena"

\* The inputs of a call that make a difference: an environment other than
\* EnvOk only when the call runs into the failure, an owner only when the call
\* succeeds (the other inputs lead to the same states).
AllocInputs(d, size) ==
  LET ok == alloc_path(d, size, EnvOk)
      failing == IF ok = "exact" THEN {}
                 ELSE {env \in Envs \ {EnvOk} : alloc_path(d, size, env) # ok}
  IN  [env : {EnvOk}, ptr : Ptrs] \cup [env : failing, ptr : {NULL}]

\* A caller allocates.
Alloc ==
  \E size \in ReqSizes : \E in \in AllocInputs(dev, size) :
    \E r \in {radv_alloc_shader_memory(dev, size, in.ptr, in.env)} :
      \E pb \in {BlockPerm(r.dev)} :
        /\ Cardinality(held) < MaxLive
        /\ find_hole(dev, align(size, RADV_SHADER_ALLOC_ALIGNMENT)) = NULL
             => dev.ws.created < MaxBos
        /\ dev' = Rename(r.dev, pb, ArenaPerm(r.dev))
        /\ held' = {Ren(pb, b) : b \in IF r.ret = NULL THEN held ELSE held \cup {r.ret}}
        /\ UNCHANGED <<mutex, thr, callers>>

\* A caller frees a block it holds.
Free ==
  \E alloc \in held :
    \E d \in {radv_free_shader_memory(dev, alloc)} :
      \E pb \in {BlockPerm(d)} :
        /\ dev' = Rename(d, pb, ArenaPerm(d))
        /\ held' = {Ren(pb, b) : b \in held \ {alloc}}
        /\ UNCHANGED <<mutex, thr, callers>>

Next == Alloc \/ Free

Spec == Init /\ [][Next]_vars

SpecLogged == InitLogged /\ [][Next]_vars

----------------------------------------------------------------------------
(* The calls of concurrent threads, statement by statement *)

AllocPcs == {"a_lock", "a_search", "a_body", "a_unlock", "a_fail"}

\* the places between a call's mtx_lock and its mtx_unlock
LockedPcs == {"a_search", "a_body", "a_unlock", "f_read", "f_body", "f_unlock"}

InFlight == {u \in Threads : thr[u].pc \in AllocPcs}

\* the handles a thread keeps across the renumbering of the objects
\* what a pointer to a block object that went back to the host is worth
Dangling == 0 - 1

\* the block a lookup found, across the renumbering: the pointer is kept
\* while the mutex is not held, so its object may be gone
RenBlk(pb, x) ==
  IF x = NULL \/ pb = <<>> \/ x \in DOMAIN pb THEN Ren(pb, x) ELSE Dangling

RenThread(th, pb, pa) ==
  [th EXCEPT !.alloc = Ren(pb, @),
             !.blk = RenBlk(pb, @),
             !.mine = {Ren(pb, b) : b \in @},
             !.res = [@ EXCEPT !.ret = Ren(pb, @), !.alloc = Ren(pb, @),
                               !.hole = Ren(pb, @), !.arena = Ren(pa, @)]]

\* thread t leaves its call
Return(th) == [IdleThread EXCEPT !.mine = th.mine]

\* radv_alloc_shader_memory is called: size = align(size, ALIGNMENT)
AllocCall(t) ==
  /\ thr[t].pc = "idle"
  /\ Cardinality(held) + Cardinality(InFlight) < MaxLive
  /\ \E size \in ReqSizes :
       thr' = [thr EXCEPT ![t] = [@ EXCEPT !.pc = "a_lock", !.ptr = t,
                 !.size = align(size, RADV_SHADER_ALLOC_ALIGNMENT)]]
  /\ UNCHANGED <<dev, held, mutex, callers>>

\* a plausible slip: the call does not take the mutex
AllocLock_skipped(t) ==
  /\ thr[t].pc = "a_lock"
  /\ thr' = [thr EXCEPT ![t] = [@ EXCEPT !.pc = "a_search", !.snap = dev]]
  /\ UNCHANGED <<dev, held, mutex, callers>>

\* mtx_lock(&device->shader_arena_mutex)
AllocLock(t) ==
  /\ thr[t].pc = "a_lock"
  /\ mutex = 0
  /\ find_hole(dev, thr[t].size) = NULL => dev.ws.created < MaxBos
  /\ mutex' = t
  /\ thr' = [thr EXCEPT ![t] = [@ EXCEPT !.pc = "a_search", !.snap = dev,
                                         !.locks = @ + 1]]
  /\ UNCHANGED <<dev, held, callers>>

\* the search of the free lists
AllocSearch(t) ==
  /\ thr[t].pc = "a_search"
  /\ thr' = [thr EXCEPT ![t] = [@ EXCEPT !.pc = "a_body",
                                         !.hole = find_hole(dev, thr[t].size)]]
  /\ UNCHANGED <<dev, held, mutex, callers>>

\* one environment for each outcome the locked part can have
BodyEnvs(d, hole, size, ptr) ==
  LET out(e) == alloc_locked(d, hole, size, ptr, e)
  IN  {CHOOSE e \in Envs : out(e) = r : r \in {out(e) : e \in Envs}}

\* the carving of the hole found, or the new arena
AllocBody(t) ==
  /\ thr[t].pc = "a_body"
  /\ \E env \in BodyEnvs(dev, thr[t].hole, thr[t].size, thr[t].ptr) :
       LET r == alloc_locked(dev, thr[t].hole, thr[t].size, thr[t].ptr, env)
       IN  /\ dev' = r.dev
           /\ thr' = [thr EXCEPT ![t] = [@ EXCEPT !.pc = "a_unlock", !.env = env,
                                                 !.res = [r EXCEPT !.dev = 0]]]
  /\ UNCHANGED <<held, mutex, callers>>

\* mtx_unlock, then return or go on to the rest of the label fail
AllocUnlock(t) ==
  /\ thr[t].pc = "a_unlock"
  /\ mutex' = 0
  /\ LET pb == BlockPerm(dev)
         pa == ArenaPerm(dev)
         r == thr[t].res
         got == IF r.ret = NULL THEN {} ELSE {r.ret}
     IN  /\ dev' = Rename(dev, pb, pa)
         /\ held' = {Ren(pb, b) : b \in held \cup got}
         /\ thr' = [u \in Threads |->
                      IF u # t THEN RenThread(thr[u], pb, pa)
                      ELSE IF r.failed
                           THEN RenThread([thr[t] EXCEPT !.pc = "a_fail", !.snap = 0,
                                             !.hole = NULL, !.env = EnvOk,
                                             !.unlocks = @ + 1], pb, pa)
                           ELSE RenThread(Return([thr[t] EXCEPT !.mine = @ \cup got]),
                                          pb, pa)]
  /\ UNCHANGED callers

\* free(alloc); free(hole); buffer_destroy; free(arena); return NULL
AllocFail(t) ==
  /\ thr[t].pc = "a_fail"
  /\ LET d == alloc_fail_cleanup(dev, thr[t].res)
         pb == IF mutex = 0 THEN BlockPerm(d) ELSE <<>>
         pa == IF mutex = 0 THEN ArenaPerm(d) ELSE <<>>
     IN  /\ dev' = IF mutex = 0 THEN Rename(d, pb, pa) ELSE d
         /\ held' = {Ren(pb, b) : b \in held}
         /\ thr' = [u \in Threads |->
                      IF u # t THEN RenThread(thr[u], pb, pa)
                      ELSE RenThread(Return(thr[t]), pb, pa)]
  /\ UNCHANGED <<mutex, callers>>

\* radv_free_shader_memory is called with a block the thread holds
FreeCall(t) ==
  /\ thr[t].pc = "idle"
  /\ \E alloc \in thr[t].mine :
       thr' = [thr EXCEPT ![t] = [@ EXCEPT !.pc = "f_lock", !.alloc = alloc]]
  /\ UNCHANGED <<dev, held, mutex, callers>>

\* a plausible slip: the call does not wait for the mutex
FreeLock_no_wait(t) ==
  /\ thr[t].pc = "f_lock"
  /\ mutex' = t
  /\ thr' = [thr EXCEPT ![t] = [@ EXCEPT !.pc = "f_read", !.snap = dev]]
  /\ UNCHANGED <<dev, held, callers>>

\* mtx_lock(&device->shader_arena_mutex)
FreeLock(t) ==
  /\ thr[t].pc = "f_lock"
  /\ mutex = 0
  /\ mutex' = t
  /\ thr' = [thr EXCEPT ![t] = [@ EXCEPT !.pc = "f_read", !.snap = dev,
                                         !.locks = @ + 1]]
  /\ UNCHANGED <<dev, held, callers>>

\* hole_prev = get_hole(...); hole_next = get_hole(...)
FreeRead(t) ==
  /\ thr[t].pc = "f_read"
  /\ LET n == free_neighbours(dev, thr[t].alloc)
     IN  thr' = [thr EXCEPT ![t] = [@ EXCEPT !.pc = "f_body", !.hole_prev = n[1],
                                            !.hole_next = n[2]]]
  /\ UNCHANGED <<dev, held, mutex, callers>>

\* the merges, and the arena destroyed or the hole filed
FreeBody(t) ==
  /\ thr[t].pc = "f_body"
  /\ dev' = free_locked(dev, thr[t].alloc, thr[t].hole_prev, thr[t].hole_next)
  /\ held' = held \ {thr[t].alloc}
  /\ thr' = [thr EXCEPT ![t] = [@ EXCEPT !.pc = "f_unlock", !.mine = @ \ {thr[t].alloc},
                                         !.hole_prev = NULL, !.hole_next = NULL]]
  /\ UNCHANGED <<mutex, callers>>

\* mtx_unlock
FreeUnlock(t) ==
  /\ thr[t].pc = "f_unlock"
  /\ mutex' = 0
  /\ LET pb == BlockPerm(dev)
         pa == ArenaPerm(dev)
     IN  /\ dev' = Rename(dev, pb, pa)
         /\ held' = {Ren(pb, b) : b \in held}
         /\ thr' = [u \in Threads |->
                      RenThread(IF u = t THEN Return(thr[t]) ELSE thr[u], pb, pa)]
  /\ UNCHANGED callers

NextMT ==
  \E t \in Threads :
    \/ AllocCall(t) \/ AllocLock(t) \/ AllocSearch(t) \/ AllocBody(t)
    \/ AllocUnlock(t) \/ AllocFail(t)
    \/ FreeCall(t) \/ FreeLock(t) \/ FreeRead(t) \/ FreeBody(t) \/ FreeUnlock(t)

SpecMT == Init /\ [][NextMT]_vars

----------------------------------------------------------------------------
(* get_size_class applied to pairs of sizes *)

\* the largest power of two among the sampled sizes is 2^MaxShift
MaxShift == 30

\* The sizes at which util_logbase2 or util_logbase2_ceil changes (a power
\* of two, the size below it, the size above it), from below the smallest
\* class to above the largest, with the ends 0, 1 and 2^31 - 1.
SizeSamples ==
  {0, 1, Pow2(MaxShift), Pow2(MaxShift) - 1 + Pow2(MaxShift)}
    \cup {Pow2(k) + e :
            k \in (RADV_SHADER_ALLOC_MIN_SIZE_CLASS - 2)
                    ..(RADV_SHADER_ALLOC_MIN_SIZE_CLASS
                         + RADV_SHADER_ALLOC_NUM_FREE_LISTS + 2),
            e \in {-1, 0, 1}}

\* two sizes are given, get_size_class has not been applied to them yet
InitSizes ==
  /\ Quiescent
  /\ fn \in [called : {FALSE}, s1 : SizeSamples, s2 : SizeSamples]
  /\ hist = <<>>
  /\ life = NoDevice

\* get_size_class(size, false) and get_size_class(size, true) of both sizes
SizeClasses ==
  /\ ~fn.called
  /\ fn' = [called |-> TRUE, s1 |-> fn.s1, s2 |-> fn.s2,
            down1 |-> get_size_class(fn.s1, FALSE), up1 |-> get_size_class(fn.s1, TRUE),
            down2 |-> get_size_class(fn.s2, FALSE), up2 |-> get_size_class(fn.s2, TRUE)]
  /\ UNCHANGED <<dev, held, mutex, thr, hist, life>>

NextSizes == SizeClasses

SpecSizes == InitSizes /\ [][NextSizes]_vars

----------------------------------------------------------------------------
(* The rounding of the size at the head of radv_alloc_shader_memory *)

\* the words of 2^32 / alignment units: the quotients sampled, from the
\* smallest to the largest a uint32_t has
UnitSamples ==
  LET words == (Pow2(30) \div RADV_SHADER_ALLOC_ALIGNMENT) * 4
  IN  {0, 1, 2, 3, 95, 96, 1023, 1024, words \div 2 - 1, words \div 2,
       words - 3, words - 2, words - 1}

\* a size above 0 is given as quotient and remainder, not yet rounded
InitAlign ==
  /\ Quiescent
  /\ fn \in {f \in [called : {FALSE}, q : UnitSamples,
                     r : {0, 1, 2, 128, RADV_SHADER_ALLOC_ALIGNMENT - 2,
                          RADV_SHADER_ALLOC_ALIGNMENT - 1}] : f.q + f.r > 0}
  /\ hist = <<>>
  /\ life = NoDevice

\* size = align(size, RADV_SHADER_ALLOC_ALIGNMENT), in units of the alignment
RoundSize ==
  /\ ~fn.called
  /\ fn' = [called |-> TRUE, q |-> fn.q, r |-> fn.r,
            units |-> align_units(fn.q, fn.r, RADV_SHADER_ALLOC_ALIGNMENT)]
  /\ UNCHANGED <<dev, held, mutex, thr, hist, life>>

SpecAlign == InitAlign /\ [][RoundSize]_vars

----------------------------------------------------------------------------
(* One caller's requests of one size, with the record of its calls *)

\* where a block is: the buffer of its arena and its offset in it (the number
\* of a buffer never changes, the number of a block may)
HeldKey(d, b) == <<d.arena[d.block[b].arena].bo, d.block[b].offset>>

\* the size requested and the owners passed
ScenarioSize == 4096

ScenarioPtrs == {1, 2, 3}

\* the caller makes at most this many calls
MaxCalls == 4

\* what hist keeps of a call: the owner passed or found in the block, where
\* the block is (NoPlace when alloc returned NULL), and for an alloc the
\* number of buffers created so far
AllocEntry(ptr, at, created) ==
  [op |-> "alloc", ptr |-> ptr, at |-> at, created |-> created]

FreeEntry(ptr, at) == [op |-> "free", ptr |-> ptr, at |-> at]

\* radv_alloc_shader_memory(device, 4096, ptr)
ScenarioAlloc ==
  \E ptr \in ScenarioPtrs : \E in \in AllocInputs(dev, ScenarioSize) :
    \E r \in {radv_alloc_shader_memory(dev, ScenarioSize, ptr, in.env)} :
      \E pb \in {BlockPerm(r.dev)} :
        /\ Len(hist) < MaxCalls
        /\ in.ptr = NULL
        /\ dev' = Rename(r.dev, pb, ArenaPerm(r.dev))
        /\ held' = {Ren(pb, b) : b \in IF r.ret = NULL THEN held ELSE held \cup {r.ret}}
        /\ hist' = Append(hist, AllocEntry(ptr, IF r.ret = NULL THEN NoPlace
                                                 ELSE HeldKey(r.dev, r.ret),
                                            r.dev.ws.created))
        /\ UNCHANGED <<mutex, thr, fn, life>>

\* radv_free_shader_memory(device, alloc) of a block the caller holds
ScenarioFree ==
  \E alloc \in held :
    \E d \in {radv_free_shader_memory(dev, alloc)} :
      \E pb \in {BlockPerm(d)} :
        /\ Len(hist) < MaxCalls
        /\ dev' = Rename(d, pb, ArenaPerm(d))
        /\ held' = {Ren(pb, b) : b \in held \ {alloc}}
        /\ hist' = Append(hist, FreeEntry(dev.block[alloc].freelist_next,
                                           HeldKey(dev, alloc)))
        /\ UNCHANGED <<mutex, thr, fn, life>>

NextScenario == ScenarioAlloc \/ ScenarioFree

SpecScenario == Init /\ [][NextScenario]_vars

----------------------------------------------------------------------------
(* One caller that holds one block at a time: every arena is new *)

\* the sizes requested: one below the smallest arena, one above it
GrowthSizes == {24500, 300000}

\* the caller makes at most this many successful allocations
MaxArenas == 7

\* what hist keeps of a successful alloc: the aligned size, the growth shift
\* the call read, whether the call created a buffer, and the size of the
\* buffer the block is in
GrowthEntry(size, shift, created, arena_size) ==
  [op |-> "alloc", size |-> size, shift |-> shift, created |-> created,
   arena_size |-> arena_size]

\* radv_alloc_shader_memory(device, size, NULL) when the caller holds nothing
GrowthAlloc ==
  \E size \in GrowthSizes : \E env \in Envs :
    \E r \in {radv_alloc_shader_memory(dev, size, NULL, env)} :
      \E pb \in {BlockPerm(r.dev)} :
        /\ held = {}
        /\ Len(hist) < MaxArenas
        /\ dev.ws.created <= MaxArenas
        /\ dev' = Rename(r.dev, pb, ArenaPerm(r.dev))
        /\ held' = {Ren(pb, b) : b \in IF r.ret = NULL THEN {} ELSE {r.ret}}
        /\ hist' = IF r.ret = NULL THEN hist
                   ELSE Append(hist,
                          GrowthEntry(align(size, RADV_SHADER_ALLOC_ALIGNMENT),
                                      dev.shader_arena_shift,
                                      r.dev.ws.created # dev.ws.created,
                                      r.dev.ws.bo[HeldKey(r.dev, r.ret)[1]].size))
        /\ UNCHANGED <<mutex, thr, fn, life>>

\* radv_free_shader_memory(device, alloc) of the block the caller holds
GrowthFree ==
  \E alloc \in held :
    \E d \in {radv_free_shader_memory(dev, alloc)} :
      \E pb \in {BlockPerm(d)} :
        /\ dev' = Rename(d, pb, ArenaPerm(d))
        /\ held' = {Ren(pb, b) : b \in held \ {alloc}}
        /\ UNCHANGED <<mutex, thr, callers>>

NextGrowth == GrowthAlloc \/ GrowthFree

SpecGrowth == Init /\ [][NextGrowth]_vars

----------------------------------------------------------------------------
(* The callers of the allocator in the life of a device: radv_CreateDevice *)
(* and radv_DestroyDevice of radv_device.c, the trap handler shader and    *)
(* the vertex shader prologs of radv_shader.c                              *)

\* the device pre-compiles this many vertex shader prologs
NumPrologs == 2

\* code sizes of the trap handler shader and of the prologs
CodeSizes == {200, 4096, 237568}

\* What a caller of radv_alloc_shader_memory returns: the device, whether the
\* object it returns is not NULL, the block the object holds, whether its
\* alloc returned NULL, and the fault it ran into.
CallerResult(d, made, alloc, alloc_null, fault) ==
  [dev |-> d, made |-> made, alloc |-> alloc, alloc_null |-> alloc_null,
   fault |-> fault]

\* trap->alloc->arena with trap->alloc == NULL reads through the NULL
\* pointer: the process is killed, or the read yields some word and the
\* memcpy of the shader code writes where that word points
null_alloc_read(d) ==
  {CallerResult(d, FALSE, NULL, TRUE, "crash"),
   CallerResult(d, TRUE, NULL, TRUE, "wild")}

\* radv_create_trap_handler_shader once radv_alloc_shader_memory has
\* returned r: trap->alloc is used with no test for NULL
trap_handler_upload(r) ==
  IF r.ret = NULL
  THEN null_alloc_read(r.dev)
  ELSE {CallerResult(r.dev, TRUE, r.ret, FALSE, "none")}

radv_create_trap_handler_shader(d, malloc_ok, code_size, env) ==
  IF ~malloc_ok
  THEN {CallerResult(d, FALSE, NULL, FALSE, "none")}
  ELSE trap_handler_upload(radv_alloc_shader_memory(d, code_size, NULL, env))

\* upload_vs_prolog once radv_alloc_shader_memory has returned r: for NULL
\* the prolog is freed and NULL returned
prolog_upload(r) ==
  IF r.ret = NULL
  THEN CallerResult(r.dev, FALSE, NULL, TRUE, "none")
  ELSE CallerResult(r.dev, TRUE, r.ret, FALSE, "none")

upload_vs_prolog(d, malloc_ok, code_size, env) ==
  IF ~malloc_ok
  THEN CallerResult(d, FALSE, NULL, FALSE, "none")
  ELSE prolog_upload(radv_alloc_shader_memory(d, code_size, NULL, env))

\* radv_create_vs_prolog returns what upload_vs_prolog returns
radv_create_vs_prolog(d, malloc_ok, code_size, env) ==
  upload_vs_prolog(d, malloc_ok, code_size, env)

\* the device and the held blocks after a call, renumbered
Settled(d, hs) ==
  CHOOSE s \in UNION {{[dev |-> Rename(dv, pb, ArenaPerm(dv)),
                         held |-> {Ren(pb, b) : b \in hs}] :
                          pb \in {BlockPerm(dv)}} : dv \in {d}} : TRUE

\* radv_prolog_destroy and radv_trap_handler_shader_destroy: nothing for
\* NULL, else radv_free_shader_memory of the object's block
shader_object_destroy(d, hs, at) ==
  IF at = NoPlace
  THEN [dev |-> d, held |-> hs]
  ELSE CHOOSE s \in {Settled(radv_free_shader_memory(d, alloc), hs \ {alloc}) :
                       alloc \in {b \in hs : HeldKey(d, b) = at}} : TRUE

radv_trap_handler_shader_destroy(d, hs, trap) == shader_object_destroy(d, hs, trap)

radv_prolog_destroy(d, hs, prolog) == shader_object_destroy(d, hs, prolog)

\* radv_prolog_destroy of every prolog of the device, in the order of the
\* device's arrays
RECURSIVE radv_device_finish_vs_prologs(_, _, _)
radv_device_finish_vs_prologs(d, hs, prologs) ==
  IF prologs = <<>>
  THEN [dev |-> d, held |-> hs]
  ELSE CHOOSE s \in {radv_device_finish_vs_prologs(s1.dev, s1.held, Tail(prologs)) :
                       s1 \in {radv_prolog_destroy(d, hs, Head(prologs))}} : TRUE

\* an alloc or free runs now: before init, after teardown?
Called(l) == [l EXCEPT !.early = @ \/ l.inits = 0, !.late = @ \/ l.teardowns > 0]

\* radv_CreateDevice up to radv_init_shader_arenas: when vk_device_init
\* fails the device is released at once
CreateDevice ==
  /\ life.pc = "none"
  /\ \E ok \in BOOLEAN :
       IF ok
       THEN /\ dev' = radv_init_shader_arenas
            /\ life' = [life EXCEPT !.pc = "init_done", !.inits = @ + 1]
       ELSE /\ dev' = dev
            /\ life' = [life EXCEPT !.pc = "released"]
  /\ UNCHANGED <<held, mutex, thr, fn, hist>>

\* a step of radv_CreateDevice other than the trap handler and the prologs
\* fails: goto fail
CreateStepFail ==
  /\ life.pc \in {"init_done", "trap_done"}
  /\ life' = [life EXCEPT !.pc = "fail"]
  /\ UNCHANGED <<dev, held, mutex, thr, fn, hist>>

\* the trap handler, when RADV_TRAP_HANDLER is set
TrapHandlerInit ==
  /\ life.pc = "init_done"
  /\ \E enabled \in BOOLEAN, malloc_ok \in BOOLEAN, code_size \in CodeSizes :
       \E env \in Envs :
         \E o \in IF enabled
                   THEN radv_create_trap_handler_shader(dev, malloc_ok, code_size, env)
                   ELSE {CallerResult(dev, FALSE, NULL, FALSE, "none")} :
           \E s1 \in {Settled(o.dev, IF o.alloc = NULL THEN held
                                      ELSE held \cup {o.alloc})} :
             /\ dev' = s1.dev
             /\ held' = s1.held
             /\ life' =
                  IF ~enabled THEN [life EXCEPT !.pc = "trap_done"]
                  ELSE IF ~malloc_ok THEN [life EXCEPT !.pc = "fail"]
                  ELSE [Called(life) EXCEPT
                          !.pc = IF o.fault # "none" THEN "undefined" ELSE "trap_done",
                          !.fault = o.fault,
                          !.alloc_null = o.alloc_null,
                          !.trap = IF o.alloc = NULL THEN NoPlace
                                   ELSE HeldKey(o.dev, o.alloc)]
  /\ UNCHANGED <<mutex, thr, fn, hist>>

\* radv_device_init_meta and the border colors succeed; the prologs are
\* pre-compiled when the device has the vertex input extension
InitMeta ==
  /\ life.pc = "trap_done"
  /\ \E vs_prologs \in BOOLEAN :
       life' = [life EXCEPT !.pc = IF vs_prologs THEN "prologs" ELSE "prologs_done"]
  /\ UNCHANGED <<dev, held, mutex, thr, fn, hist>>

\* radv_device_init_vs_prologs: one radv_create_vs_prolog
CreateVsProlog ==
  /\ life.pc = "prologs"
  /\ Len(life.prologs) < NumPrologs
  /\ \E malloc_ok \in BOOLEAN, code_size \in CodeSizes :
       \E env \in Envs :
         \E o \in {radv_create_vs_prolog(dev, malloc_ok, code_size, env)} :
           \E s1 \in {Settled(o.dev, IF o.alloc = NULL THEN held
                                      ELSE held \cup {o.alloc})} :
             /\ dev' = s1.dev
             /\ held' = s1.held
             /\ life' =
                  IF ~malloc_ok THEN [life EXCEPT !.pc = "fail"]
                  ELSE [Called(life) EXCEPT
                          !.pc = IF o.made THEN "prologs" ELSE "fail",
                          !.alloc_null = o.alloc_null,
                          !.prologs = IF o.made THEN Append(@, HeldKey(o.dev, o.alloc))
                                      ELSE @]
  /\ UNCHANGED <<mutex, thr, fn, hist>>

\* radv_device_init_vs_prologs returns VK_SUCCESS
VsPrologsDone ==
  /\ life.pc = "prologs"
  /\ Len(life.prologs) = NumPrologs
  /\ life' = [life EXCEPT !.pc = "prologs_done"]
  /\ UNCHANGED <<dev, held, mutex, thr, fn, hist>>

\* the rest of radv_CreateDevice: the pipeline cache is created and the
\* device returned, or goto fail_meta
CreateFinish ==
  /\ life.pc = "prologs_done"
  /\ \E ok \in BOOLEAN : life' = [life EXCEPT !.pc = IF ok THEN "live" ELSE "fail"]
  /\ UNCHANGED <<dev, held, mutex, thr, fn, hist>>

\* radv_CreateDevice from the label fail: the trap handler and the prologs
\* are finished, the device is released
CreateDeviceFail ==
  /\ life.pc = "fail"
  /\ \E s1 \in {radv_trap_handler_shader_destroy(dev, held, life.trap)} :
       \E s2 \in {radv_device_finish_vs_prologs(s1.dev, s1.held, life.prologs)} :
         /\ dev' = s2.dev
         /\ held' = s2.held
         /\ life' = [(IF life.trap = NoPlace /\ life.prologs = <<>>
                       THEN life ELSE Called(life))
                       EXCEPT !.pc = "released", !.trap = NoPlace, !.prologs = <<>>]
  /\ UNCHANGED <<mutex, thr, fn, hist>>

\* radv_DestroyDevice: the prologs and the trap handler are finished, the
\* arenas destroyed, the device released
DestroyDevice ==
  /\ life.pc = "live"
  /\ \E s1 \in {radv_device_finish_vs_prologs(dev, held, life.prologs)} :
       \E s2 \in {radv_trap_handler_shader_destroy(s1.dev, s1.held, life.trap)} :
         /\ dev' = radv_destroy_shader_arenas(s2.dev)
         /\ held' = s2.held
         /\ life' = [(IF life.trap = NoPlace /\ life.prologs = <<>>
                       THEN life ELSE Called(life))
                       EXCEPT !.pc = "released", !.teardowns = @ + 1,
                              !.trap = NoPlace, !.prologs = <<>>]
  /\ UNCHANGED <<mutex, thr, fn, hist>>

NextDevice ==
  \/ CreateDevice \/ CreateStepFail \/ TrapHandlerInit \/ InitMeta
  \/ CreateVsProlog \/ VsPrologsDone \/ CreateFinish
  \/ CreateDeviceFail \/ DestroyDevice

SpecDevice == Init /\ [][NextDevice]_vars

----------------------------------------------------------------------------
(* Observations of a device state, used by the properties *)

\* the arenas of the arena set, the blocks linked in them, the holes filed
ArenaSet(d) == {d.shader_arenas[i] : i \in 1..Len(d.shader_arenas)}

Entries(d, a) == d.arena[a].entries

Linked(d) == UNION {{Entries(d, a)[j] : j \in 1..Len(Entries(d, a))} : a \in ArenaSet(d)}

Filed(d, k) == {d.shader_free_lists[k][i] : i \in 1..Len(d.shader_free_lists[k])}

Pooled(d) == {d.shader_block_obj_pool[i] : i \in 1..Len(d.shader_block_obj_pool)}

\* a block is a hole (Free) when its freelist.prev is not NULL
IsFree(d, b) == d.block[b].freelist_prev

\* the size of an arena: the size its buffer was created with
ArenaSize(d, a) == d.ws.bo[d.arena[a].bo].size

\* the absolute byte range of a block: <<first, one past the last>>
Start(d, b) == radv_buffer_get_va(d.arena[d.block[b].arena].bo) + d.block[b].offset

Disjoint(d, a, b) ==
  \/ Start(d, a) + d.block[a].size <= Start(d, b)
  \/ Start(d, b) + d.block[b].size <= Start(d, a)

\* the allocated blocks of arena a
Allocated(d, a) == {b \in {Entries(d, a)[j] : j \in 1..Len(Entries(d, a))} : ~IsFree(d, b)}

\* the allocator's state without the identity of its objects: the arenas in
\* list order, each with its size and its blocks in offset order
ArenaView(d) ==
  [i \in 1..Len(d.shader_arenas) |->
     LET a == d.shader_arenas[i]
     IN  [size |-> ArenaSize(d, a),
          blocks |-> [j \in 1..Len(Entries(d, a)) |->
                        LET b == Entries(d, a)[j]
                        IN  [offset |-> d.block[b].offset, size |-> d.block[b].size,
                             free |-> IsFree(d, b),
                             owner |-> d.block[b].freelist_next]]]]

\* the contents of each free list: its holes as <<arena position, offset, size>>
FreeListView(d) ==
  [k \in Classes |->
     {<<IndexOf(d.shader_arenas, d.block[b].arena), d.block[b].offset, d.block[b].size>> :
        b \in Filed(d, k)}]

\* the allocator's own state: everything but the winsys
Core(d) == [d EXCEPT !.ws = 0]

----------------------------------------------------------------------------
(* radv_find_shader called by one thread, statement by statement, while    *)
(* callers allocate and free                                                *)

\* the thread that looks addresses up
Finder == 1

\* the blocks in the order of the two loops
ScanOrder(d) == Flatten(d.shader_arenas, [a \in DOMAIN d.arena |-> d.arena[a].entries])

\* the first block of the loops that is Allocated and holds pc, or NULL
RECURSIVE scan_from(_, _, _)
scan_from(d, pc, i) ==
  IF i > Len(ScanOrder(d)) THEN NULL
  ELSE LET b == ScanOrder(d)[i]
           start == radv_buffer_get_va(d.arena[d.block[b].arena].bo) + d.block[b].offset
       IN  IF ~d.block[b].freelist_prev /\ pc >= start /\ pc < start + d.block[b].size
           THEN b ELSE scan_from(d, pc, i + 1)

\* the block the lookup found is still a linked, Allocated block
StillAllocated(d, b) ==
  b \in DOMAIN d.block /\ b \in Linked(d) /\ ~d.block[b].freelist_prev

\* radv_find_shader is called with the address of a block in use, or 0:
\* mtx_lock(&device->shader_arena_mutex)
FindLock(t) ==
  /\ thr[t].pc = "idle"
  /\ mutex = 0
  /\ mutex' = t
  /\ \E pc \in {0} \cup {Start(dev, b) : b \in held} :
       thr' = [thr EXCEPT ![t] = [@ EXCEPT !.pc = "s_scan", !.probe = pc,
                                              !.locks = @ + 1]]
  /\ UNCHANGED <<dev, held, callers>>

\* the two loops, up to the first Allocated block that holds pc
FindScan(t) ==
  /\ thr[t].pc = "s_scan"
  /\ \E b \in {scan_from(dev, thr[t].probe, 1)} :
       thr' = [thr EXCEPT ![t] = [@ EXCEPT !.blk = b, !.probe = 0,
                 !.pc = IF b = NULL THEN "s_unlock_end" ELSE "s_unlock_hit"]]
  /\ UNCHANGED <<dev, held, mutex, callers>>

\* mtx_unlock inside the loops
FindUnlockHit(t) ==
  /\ thr[t].pc = "s_unlock_hit"
  /\ mutex' = 0
  /\ thr' = [thr EXCEPT ![t] = [@ EXCEPT !.pc = "s_owner", !.unlocks = @ + 1]]
  /\ UNCHANGED <<dev, held, callers>>

\* pipeline = block->freelist.next and the loop over pipeline->shaders: a
\* shader holds pc and is returned, or none does and the loops go on.  When
\* the block was freed in between, the owner read is a list link or the
\* content of released memory: the reads through it fault or yield anything.
FindOwner(t) ==
  /\ thr[t].pc = "s_owner"
  /\ \E out \in IF StillAllocated(dev, thr[t].blk)
                 THEN IF dev.block[thr[t].blk].freelist_next = NULL
                      THEN {"s_crash", "idle"} ELSE {"idle", "s_rest"}
                 ELSE {"s_crash", "idle", "s_rest"} :
       thr' = [thr EXCEPT ![t] = IF out = "idle" THEN Return(@)
                                 ELSE IF out = "s_crash"
                                      THEN [@ EXCEPT !.pc = out, !.blk = NULL]
                                      ELSE [@ EXCEPT !.pc = out]]
  /\ UNCHANGED <<dev, held, mutex, callers>>

\* the rest of the two loops, from block->list.next on: links of a block that
\* was freed in between lead anywhere
FindRest(t) ==
  /\ thr[t].pc = "s_rest"
  /\ \E out \in IF StillAllocated(dev, thr[t].blk)
                 THEN {"s_unlock_end"} ELSE {"s_unlock_end", "s_crash"} :
       thr' = [thr EXCEPT ![t] = [@ EXCEPT !.pc = out, !.blk = NULL]]
  /\ UNCHANGED <<dev, held, mutex, callers>>

\* mtx_unlock after the loops and return NULL.  Unlocking a plain mutex the
\* thread does not hold is undefined: the mutex stays as it is or is released
\* under the thread that holds it.
FindUnlockEnd(t) ==
  /\ thr[t].pc = "s_unlock_end"
  /\ mutex' \in IF mutex = t THEN {0} ELSE {mutex, 0}
  /\ thr' = [thr EXCEPT ![t] = Return(@)]
  /\ UNCHANGED <<dev, held, callers>>

\* A whole call of radv_alloc_shader_memory by another thread: it gets the
\* mutex when no one holds it and has released it when it returns.
LockedAlloc ==
  \E size \in ReqSizes : \E in \in AllocInputs(dev, size) :
    \E r \in {radv_alloc_shader_memory(dev, size, in.ptr, in.env)} :
      \E pb \in {BlockPerm(r.dev)} : \E pa \in {ArenaPerm(r.dev)} :
        /\ mutex = 0
        /\ Cardinality(held) < MaxLive
        /\ find_hole(dev, align(size, RADV_SHADER_ALLOC_ALIGNMENT)) = NULL
             => dev.ws.created < MaxBos
        /\ dev' = Rename(r.dev, pb, pa)
        /\ held' = {Ren(pb, b) : b \in IF r.ret = NULL THEN held ELSE held \cup {r.ret}}
        /\ thr' = [u \in Threads |-> RenThread(thr[u], pb, pa)]
        /\ UNCHANGED <<mutex, callers>>

\* A whole call of radv_free_shader_memory by another thread.
LockedFree ==
  \E alloc \in held :
    \E d \in {radv_free_shader_memory(dev, alloc)} :
      \E pb \in {BlockPerm(d)} : \E pa \in {ArenaPerm(d)} :
        /\ mutex = 0
        /\ dev' = Rename(d, pb, pa)
        /\ held' = {Ren(pb, b) : b \in held \ {alloc}}
        /\ thr' = [u \in Threads |-> RenThread(thr[u], pb, pa)]
        /\ UNCHANGED <<mutex, callers>>

NextFind ==
  \/ LockedAlloc \/ LockedFree
  \/ FindLock(Finder) \/ FindScan(Finder)
  \/ FindUnlockHit(Finder) \/ FindOwner(Finder) \/ FindRest(Finder)
  \/ FindUnlockEnd(Finder)

SpecFind == Init /\ [][NextFind]_vars

\* the statements of the lookup after its mtx_lock: the thread is scheduled
\* again and again, and none of them waits for anything
FinderSteps ==
  \/ FindScan(Finder) \/ FindUnlockHit(Finder) \/ FindOwner(Finder)
  \/ FindRest(Finder) \/ FindUnlockEnd(Finder)

SpecFindFair == SpecFind /\ WF_vars(FinderSteps)

----------------------------------------------------------------------------
(* Properties *)

\* C1 (tiling): in every state between calls, the blocks of every arena of
\* the arena set, in list order, start at offset 0, follow one another without
\* gap or overlap, and end at the size the arena's buffer was created with.
Tiling ==
  \A a \in ArenaSet(dev) :
    LET e == Entries(dev, a)
    IN  /\ Len(e) >= 1
        /\ dev.arena[a].bo \in DOMAIN dev.ws.bo
        /\ dev.block[e[1]].offset = 0
        /\ \A j \in 1..(Len(e) - 1) :
             dev.block[e[j]].offset + dev.block[e[j]].size = dev.block[e[j + 1]].offset
        /\ dev.block[e[Len(e)]].offset + dev.block[e[Len(e)]].size = ArenaSize(dev, a)

\* an arena of three or more blocks that begins with a hole, while the pool
\* holds a block object: allocations, splits and a free have happened
TilingWitness ==
  \E a \in ArenaSet(dev) :
    /\ Len(Entries(dev, a)) >= 3
    /\ IsFree(dev, Entries(dev, a)[1])
    /\ dev.shader_block_obj_pool # <<>>

\* C2 (no aliasing): the byte ranges of any two distinct blocks that callers
\* hold (returned by alloc, not yet freed) are disjoint, in one arena or two.
NoAliasing ==
  /\ held \subseteq Linked(dev)
  /\ \A a, b \in held : a # b => Disjoint(dev, a, b)

\* two held blocks in one arena, one of them carved behind the other
NoAliasingWitness ==
  /\ Cardinality(held) = 2
  /\ \E a, b \in held : a # b /\ dev.block[a].arena = dev.block[b].arena
                              /\ dev.block[a].offset > 0

\* C3 (coalescing): between calls no arena holds two adjacent Free blocks.
Coalesced ==
  \A a \in ArenaSet(dev) :
    \A j \in 1..(Len(Entries(dev, a)) - 1) :
      ~(IsFree(dev, Entries(dev, a)[j]) /\ IsFree(dev, Entries(dev, a)[j + 1]))

\* a hole of two merged blocks (its size is twice a request's) before a held block
CoalescedWitness ==
  \E a \in ArenaSet(dev) :
    /\ Len(Entries(dev, a)) >= 2
    /\ IsFree(dev, Entries(dev, a)[1])
    /\ dev.block[Entries(dev, a)[1]].size = 2 * align(24500, RADV_SHADER_ALLOC_ALIGNMENT)
    /\ ~IsFree(dev, Entries(dev, a)[2])

\* C4 (arena reclamation): the free of the last allocated block of an arena
\* removes the arena from the arena set and destroys its buffer, once: so
\* between calls every arena of the set holds an allocated block, the live
\* buffers are exactly the buffers of the arenas of the set, one each, and no
\* buffer was ever destroyed twice.
ArenaReclaimed ==
  /\ \A a \in ArenaSet(dev) : Allocated(dev, a) # {}
  /\ \A b \in held :
       Allocated(dev, dev.block[b].arena) = {b} =>
         LET d == radv_free_shader_memory(dev, b)
         IN  /\ dev.block[b].arena \notin ArenaSet(d)
             /\ dev.arena[dev.block[b].arena].bo \notin DOMAIN d.ws.bo
             /\ d.ws.misuse = 0
  /\ DOMAIN dev.ws.bo = {dev.arena[a].bo : a \in ArenaSet(dev)}
  /\ \A a, b \in ArenaSet(dev) : a # b => dev.arena[a].bo # dev.arena[b].bo
  /\ dev.ws.misuse = 0

\* alloc, alloc, free, free on the empty allocator: one arena was created, its
\* three block objects are in the pool, and no arena and no buffer is left
ArenaReclaimedWitness ==
  /\ dev.shader_arenas = <<>>
  /\ dev.ws.created = 1 /\ dev.shader_arena_shift = 1
  /\ DOMAIN dev.ws.bo = {}
  /\ Len(dev.shader_block_obj_pool) = 3

\* the aligned size of a request
Aligned(size) == align(size, RADV_SHADER_ALLOC_ALIGNMENT)

\* C5 as claimed: whenever some Free block is at least as large as the aligned
\* request, alloc creates no buffer.
NoArenaWhileAnyHoleFits ==
  \A size \in ReqSizes :
    (\E k \in Classes : \E b \in Filed(dev, k) : dev.block[b].size >= Aligned(size))
      => radv_alloc_shader_memory(dev, size, NULL, EnvOk).dev.ws.created = dev.ws.created

\* C5 (amended): whenever some Free block at least as large as the aligned
\* request is filed in a class at or above get_size_class(size, true), alloc
\* creates no buffer, whatever the environment, and when the host has memory
\* it returns a block carved from the front of a Free block.
NoArenaWhileSearchedHoleFits ==
  \A size \in ReqSizes, env \in Envs :
    (\E k \in Classes : \E b \in Filed(dev, k) :
        /\ k >= get_size_class(Aligned(size), TRUE)
        /\ dev.block[b].size >= Aligned(size))
      => LET r == radv_alloc_shader_memory(dev, size, NULL, env)
         IN  /\ r.dev.ws = dev.ws
             /\ r.dev.shader_arenas = dev.shader_arenas
             /\ env = EnvOk =>
                  /\ r.ret # NULL
                  /\ \E k \in Classes : \E b \in Filed(dev, k) :
                       /\ r.dev.block[r.ret].arena = dev.block[b].arena
                       /\ r.dev.block[r.ret].offset = dev.block[b].offset
                       /\ r.dev.block[r.ret].size = Aligned(size)
                       /\ Aligned(size) <= dev.block[b].size

\* a hole that is searched and one that is not: the next request of 24500
\* bytes is carved from the first although the second would hold it exactly
NoArenaWitness ==
  /\ \E b \in Filed(dev, 6) : dev.block[b].size = Aligned(24500)
  /\ Filed(dev, 7) # {}
  /\ held # {}

FailsWith(size, env, path) == alloc_path(dev, size, env) = path

\* C7 (backend failure): when buffer_create or buffer_map fails, alloc returns
\* NULL, the allocator's state (arena set, block sequences, free lists, mask,
\* shift, pool, heap objects) is what it was, and no buffer is left alive that
\* was not alive before.
BackendFailureUnwinds ==
  \A size \in ReqSizes, ptr \in Ptrs, env \in Envs :
    (FailsWith(size, env, "create_failed") \/ FailsWith(size, env, "map_failed")) =>
      LET r == radv_alloc_shader_memory(dev, size, ptr, env)
      IN  /\ r.ret = NULL
          /\ Core(r.dev) = Core(dev)
          /\ r.dev.ws.bo = dev.ws.bo
          /\ r.dev.ws.misuse = dev.ws.misuse
          /\ r.dev.ws.created =
               dev.ws.created + (IF FailsWith(size, env, "map_failed") THEN 1 ELSE 0)

\* a failure after buffer_create has happened (more buffers were created than
\* arenas) beside an arena in use, and the next call can fail the same way
BackendFailureWitness ==
  /\ dev.ws.created > dev.shader_arena_shift
  /\ held # {}
  /\ \E size \in ReqSizes : FailsWith(size, [EnvOk EXCEPT !.map_ok = FALSE], "map_failed")

\* the failures of alloc_block_obj
NoMemory(size, env) ==
  FailsWith(size, env, "split_nomem") \/ FailsWith(size, env, "arena_nomem")

\* C8 as claimed: when alloc_block_obj fails, alloc returns NULL and the state
\* is as before the call, the pool holding the same block objects.
NoMemoryRestoresPool ==
  \A size \in ReqSizes, env \in Envs :
    NoMemory(size, env) =>
      LET r == radv_alloc_shader_memory(dev, size, NULL, env)
      IN  /\ r.ret = NULL
          /\ r.dev.shader_block_obj_pool = dev.shader_block_obj_pool

\* C8 (amended): when alloc_block_obj fails, alloc returns NULL; arenas, block
\* sequences, free lists, mask and shift are unchanged; the buffer created for
\* the attempted arena is destroyed; and every block object the call acquired
\* is released with free(): one it popped from the pool is gone from the pool
\* (the pool is what it was, or what it was without its first object), and no
\* block object is left outside the arenas and the pool.
NoMemoryUnwinds ==
  \A size \in ReqSizes, ptr \in Ptrs, env \in Envs :
    NoMemory(size, env) =>
      LET r == radv_alloc_shader_memory(dev, size, ptr, env)
      IN  /\ r.ret = NULL
          /\ [Core(r.dev) EXCEPT !.shader_block_obj_pool = <<>>, !.block = <<>>]
               = [Core(dev) EXCEPT !.shader_block_obj_pool = <<>>, !.block = <<>>]
          /\ \A b \in Linked(dev) : r.dev.block[b] = dev.block[b]
          /\ r.dev.ws.bo = dev.ws.bo /\ r.dev.ws.misuse = dev.ws.misuse
          /\ \/ r.dev.shader_block_obj_pool = dev.shader_block_obj_pool
             \/ /\ dev.shader_block_obj_pool # <<>>
                /\ r.dev.shader_block_obj_pool = Tail(dev.shader_block_obj_pool)
          /\ DOMAIN r.dev.block = Linked(r.dev) \cup Pooled(r.dev)

\* a state whose pool holds one block object while no hole is searched for a
\* request that needs two: the second alloc_block_obj can fail after the first
\* has emptied the pool
NoMemoryWitness ==
  /\ Len(dev.shader_block_obj_pool) = 1
  /\ \E size \in ReqSizes :
       FailsWith(size, [EnvOk EXCEPT !.malloc_ok = <<TRUE, FALSE>>], "arena_nomem")

----------------------------------------------------------------------------
(* Properties of the concurrent calls *)

\* the allocator's shared state without the identity of its objects
SharedView(d) ==
  [arenas |-> ArenaView(d), holes |-> FreeListView(d),
   mask |-> d.shader_free_list_mask, shift |-> d.shader_arena_shift,
   pool |-> Len(d.shader_block_obj_pool),
   created |-> d.ws.created, misuse |-> d.ws.misuse]

\* a block without its identity: its arena's place, its offset, size and owner
BlockView(d, b) ==
  IF b = NULL THEN <<>>
  ELSE <<IndexOf(d.shader_arenas, d.block[b].arena), d.block[b].offset,
         d.block[b].size, d.block[b].freelist_next>>

\* the holes filed are the Free blocks of the arenas, each once and in the
\* list of its class, and the mask marks the lists that are not empty
FreeListsWellFormed(d) ==
  /\ \A k \in Classes :
       /\ Cardinality(Filed(d, k)) = Len(d.shader_free_lists[k])
       /\ \A b \in Filed(d, k) : /\ b \in Linked(d)
                                 /\ IsFree(d, b)
                                 /\ get_size_class(d.block[b].size, FALSE) = k
       /\ Bit(d.shader_free_list_mask, k) = 1 <=> d.shader_free_lists[k] # <<>>
  /\ \A b \in Linked(d) : IsFree(d, b) => \E k \in Classes : b \in Filed(d, k)

\* the step is taken by the thread that holds the mutex
ByHolder == mutex # 0 /\ thr'[mutex] # thr[mutex]

\* the step is the rest of the label fail of some call
ByFailLabel == \E t \in Threads : thr[t].pc = "a_fail" /\ thr'[t].pc = "idle"

\* the shared state and every object linked in it are left as they are
SharedUntouched ==
  /\ dev'.shader_arenas = dev.shader_arenas
  /\ dev'.shader_free_lists = dev.shader_free_lists
  /\ dev'.shader_free_list_mask = dev.shader_free_list_mask
  /\ dev'.shader_arena_shift = dev.shader_arena_shift
  /\ dev'.shader_block_obj_pool = dev.shader_block_obj_pool
  /\ \A a \in ArenaSet(dev) :
       /\ dev'.arena[a] = dev.arena[a]
       /\ dev.arena[a].bo \in DOMAIN dev.ws.bo => dev.arena[a].bo \in DOMAIN dev'.ws.bo
  /\ \A b \in Linked(dev) \cup Pooled(dev) : dev'.block[b] = dev.block[b]
  /\ dev'.ws.created = dev.ws.created

\* C9 as claimed: every step of a call that reads or writes the allocator's
\* state or calls the backend (buffer_destroy of the label fail included) is
\* taken by the thread that holds the mutex.
AllAccessUnderMutex ==
  [][/\ \A t \in Threads : thr[t].pc \in LockedPcs => mutex = t
     /\ dev' # dev => ByHolder]_vars

\* C9 (amended): every step of a call that reads or writes the arena set, the
\* free lists, the mask, the growth shift or the pool, or that creates or maps a
\* buffer or destroys the buffer of an arena of the set, is taken by the thread
\* that holds the mutex; the rest of alloc's label fail runs after mtx_unlock
\* and releases only objects its call created or took and never linked.
SharedAccessUnderMutex ==
  [][/\ \A t \in Threads : thr[t].pc \in LockedPcs => mutex = t
     /\ dev' # dev => \/ ByHolder
                      \/ ByFailLabel /\ SharedUntouched]_vars

\* a thread is about to destroy the buffer of its failed call while another
\* thread holds the mutex
SharedAccessWitness ==
  \E t, u \in Threads :
    /\ thr[t].pc = "a_fail" /\ thr[t].res.arena # NULL
    /\ dev.arena[thr[t].res.arena].bo \in DOMAIN dev.ws.bo
    /\ mutex = u /\ u # t /\ thr[u].pc = "a_unlock"

\* what the call of thread t does to the device its thread saw at mtx_lock
\* when nothing runs in between
Sequential(t) ==
  LET th == thr[t]
  IN  IF th.pc = "a_unlock"
      THEN alloc_locked(th.snap, find_hole(th.snap, th.size), th.size, th.ptr, th.env)
      ELSE Result(radv_free_shader_memory(th.snap, th.alloc), NULL, FALSE,
                  NULL, NULL, NULL)

\* C10 (atomicity): at the mtx_unlock of every call the shared state and the
\* value to return are those of the whole call applied to the state at its
\* mtx_lock, and the rest of a failed call changes nothing shared, so the calls
\* take effect one after the other in the order of their locks; whenever the
\* mutex is free the tiling, no-aliasing and free-list invariants hold; and
\* the blocks of two threads never overlap.
Atomicity ==
  /\ \A t \in Threads :
       /\ thr[t].pc \in {"a_unlock", "f_unlock"} =>
            /\ mutex = t
            /\ SharedView(dev) = SharedView(Sequential(t).dev)
            /\ BlockView(dev, thr[t].res.ret) =
                 BlockView(Sequential(t).dev, Sequential(t).ret)
            /\ thr[t].res.failed = Sequential(t).failed
       /\ thr[t].pc = "a_fail" =>
            SharedView(alloc_fail_cleanup(dev, thr[t].res)) = SharedView(dev)
  /\ mutex = 0 => Tiling /\ NoAliasing /\ Coalesced /\ FreeListsWellFormed(dev)
  /\ \A t, u \in Threads :
       t # u => /\ thr[t].mine \cap thr[u].mine = {}
                /\ \A a \in thr[t].mine, b \in thr[u].mine : Disjoint(dev, a, b)
  /\ held = UNION {thr[t].mine : t \in Threads}

\* a thread is about to return a block carved behind the block of another
\* thread, which waits for the mutex to free it
AtomicityWitness ==
  \E t, u \in Threads :
    /\ t # u /\ thr[u].pc = "a_unlock" /\ thr[u].res.ret # NULL
    /\ thr[t].pc = "f_lock"
    /\ \E a \in thr[t].mine :
         /\ dev.block[a].arena = dev.block[thr[u].res.ret].arena
         /\ dev.block[thr[u].res.ret].offset > 0

----------------------------------------------------------------------------
(* Properties of the lookup, the teardown and the size classes *)

\* the addresses a lookup is tried with: the first and the last byte of every
\* block of the arenas, the byte behind it, and address 0 (in no arena)
ProbeAddrs(d) ==
  {0} \cup UNION {{Start(d, b), Start(d, b) + d.block[b].size - 1,
                   Start(d, b) + d.block[b].size} : b \in Linked(d)}

\* the allocated block that holds address pc, if any
BlockAt(d, pc) ==
  {b \in Linked(d) : /\ ~IsFree(d, b)
                     /\ Start(d, b) <= pc /\ pc < Start(d, b) + d.block[b].size}

\* C11 as claimed: for every address, radv_find_shader returns the owner of the
\* Allocated block that holds the address, also when that owner is the NULL
\* token, and NULL when the address lies in a Free block or in no arena; it
\* always returns.  (Every pipeline is taken to have a shader at the address.)
FindResolvesOwner ==
  \A pc \in ProbeAddrs(dev) :
    \A o \in radv_find_shader(dev, pc, TRUE) :
      /\ o.fault = "none"
      /\ \A b \in BlockAt(dev, pc) : o.ret = dev.block[b].freelist_next
      /\ BlockAt(dev, pc) = {} => o.ret = NULL

\* the block is tagged Allocated: its tag says so, no free list holds it, and
\* get_hole does not take it for a hole
TaggedAllocated(d, b) ==
  /\ ~IsFree(d, b)
  /\ \A k \in Classes : b \notin Filed(d, k)
  /\ get_hole(d, d.block[b].arena, IndexOf(Entries(d, d.block[b].arena), b)) = NULL

\* C12 (owner attachment): the block a successful alloc returns, by whichever
\* path, is tagged Allocated and carries the owner passed; and every held
\* block that a call leaves held is still tagged Allocated with the same owner.
OwnerAttached ==
  [][/\ \A size \in ReqSizes, ptr \in Ptrs :
          \A r \in {radv_alloc_shader_memory(dev, size, ptr, EnvOk)} :
            r.ret # NULL => /\ TaggedAllocated(r.dev, r.ret)
                            /\ r.dev.block[r.ret].freelist_next = ptr
     /\ \A b \in held : \A c \in held' :
          HeldKey(dev, b) = HeldKey(dev', c) =>
            /\ TaggedAllocated(dev', c)
            /\ dev'.block[c].freelist_next = dev.block[b].freelist_next]_vars

\* a block with an owner is held beside a hole that the next request can take
\* whole, while other requests split a hole or need a new arena
OwnerAttachedWitness ==
  /\ \E b \in held : dev.block[b].freelist_next # NULL
  /\ \E size \in ReqSizes : alloc_path(dev, size, EnvOk) = "exact"
  /\ \E size \in ReqSizes : alloc_path(dev, size, EnvOk) = "split"
  /\ \E size \in ReqSizes : alloc_path(dev, size, EnvOk) = "arena"

\* C13 (teardown): radv_destroy_shader_arenas, called between calls in any
\* state (blocks may still be held), destroys the buffer of every arena of the
\* set, each once, and frees every block object of the pool and every arena:
\* afterwards no buffer the allocator created is alive.
TeardownDestroysAll ==
  \A d \in {radv_destroy_shader_arenas(dev)} :
    /\ DOMAIN d.ws.bo = {}
    /\ d.ws.misuse = 0
    /\ d.ws.created = dev.ws.created
    /\ DOMAIN d.arena = {}
    /\ DOMAIN d.block = DOMAIN dev.block \ Pooled(dev)

\* two arenas, each with a block that is still held, and a hole
TeardownWitness ==
  /\ Len(dev.shader_arenas) = 2
  /\ Cardinality(held) = 2
  /\ \E k \in Classes : Filed(dev, k) # {}

\* C14: once get_size_class has been applied to two sizes, for each size the
\* class with rounding up is at least the class with rounding down; if the
\* first size is at most the second, so are its classes, in either rounding
\* mode; and the four classes lie in 0..RADV_SHADER_ALLOC_NUM_FREE_LISTS-1.
SizeClassOrdered ==
  fn.called =>
    /\ fn.up1 >= fn.down1
    /\ fn.up2 >= fn.down2
    /\ fn.s1 <= fn.s2 => fn.down1 <= fn.down2 /\ fn.up1 <= fn.up2
    /\ {fn.down1, fn.up1, fn.down2, fn.up2} \subseteq Classes

\* get_size_class has been applied to a size below a power of two and to the
\* power of two itself, in the middle classes: rounding up gives one class
\* more for the first only, and both round up to the same class
SizeClassWitness ==
  /\ fn.called
  /\ fn.s1 = 4095 /\ fn.s2 = 4096
  /\ fn.down1 = 3 /\ fn.up1 = 4 /\ fn.down2 = 4 /\ fn.up2 = 4

\* the caller's first three calls were alloc(4096, owner 1) and
\* alloc(4096, owner 2), both successful, and the free of owner 1's block
ReusePrefix ==
  /\ Len(hist) >= 3
  /\ hist[1].op = "alloc" /\ hist[1].ptr = 1 /\ hist[1].at # NoPlace
  /\ hist[2].op = "alloc" /\ hist[2].ptr = 2 /\ hist[2].at # NoPlace
  /\ hist[3].op = "free" /\ hist[3].ptr = 1 /\ hist[3].at = hist[1].at

\* the hole of 4096 bytes at offset 0 of the first arena, filed under the
\* class of 4096
HoleAtZero(d) ==
  \E b \in Filed(d, get_size_class(ScenarioSize, FALSE)) :
    /\ d.block[b].arena = d.shader_arenas[1]
    /\ IsFree(d, b)
    /\ d.block[b].offset = 0
    /\ d.block[b].size = ScenarioSize

\* C15 (hole reuse): from the empty allocator, after alloc(4096, owner 1),
\* alloc(4096, owner 2) and the free of owner 1's block, a Free block of 4096
\* bytes is at offset 0 of the first arena, filed under the class of 4096;
\* and an alloc(4096, owner 3) that follows returns the block at offset 0 of
\* that arena and creates no arena.
HoleReused ==
  ReusePrefix =>
    /\ Len(hist) = 3 => /\ Len(dev.shader_arenas) = 1
                        /\ dev.arena[dev.shader_arenas[1]].bo = hist[1].at[1]
                        /\ hist[1].at[2] = 0
                        /\ HoleAtZero(dev)
    /\ Len(hist) = 4 /\ hist[4].op = "alloc" /\ hist[4].ptr = 3 =>
         /\ hist[4].at = hist[1].at
         /\ hist[4].created = hist[2].created
         /\ Len(dev.shader_arenas) = 1
         /\ \E b \in held : /\ HeldKey(dev, b) = hist[4].at
                             /\ dev.block[b].freelist_next = 3
                             /\ dev.block[b].arena = dev.shader_arenas[1]

\* the four calls of the scenario have been made
HoleReusedWitness ==
  /\ ReusePrefix
  /\ Len(hist) = 4 /\ hist[4].op = "alloc" /\ hist[4].ptr = 3
  /\ hist[4].at = <<1, 0>>
  /\ Cardinality(held) = 2

\* C16 (callers check for NULL): whenever the radv_alloc_shader_memory of a
\* caller (radv_create_trap_handler_shader, upload_vs_prolog) has returned
\* NULL, the caller has used no block: nothing went wrong in it, and the
\* failure went up to radv_CreateDevice, which is at its label fail or has
\* released the device.
AllocFailurePropagated ==
  life.alloc_null => /\ life.fault = "none"
                     /\ life.pc \in {"fail", "released"}

\* C17 (lifecycle pairing): radv_init_shader_arenas runs at most once and
\* before every alloc and free, radv_destroy_shader_arenas at most once and
\* after every alloc and free, and a device on which init has run is
\* released, by radv_DestroyDevice or by the failure path of
\* radv_CreateDevice, only with the teardown done.
LifecyclePaired ==
  /\ life.inits <= 1 /\ life.teardowns <= 1
  /\ ~life.early /\ ~life.late
  /\ life.pc = "released" /\ life.inits = 1 => life.teardowns = 1

\* the Free blocks of the arenas of the arena set
FreeBlocks(d) == {b \in Linked(d) : IsFree(d, b)}

\* C18 (free-list membership): between calls the blocks linked in the free
\* lists are exactly the Free blocks of the arenas of the arena set; each is
\* in one list only, once, the list of get_size_class(size, false); and no
\* Allocated block, no pooled descriptor and no block outside the arenas of
\* the set is in a list.
FreeListMembership ==
  /\ UNION {Filed(dev, k) : k \in Classes} = FreeBlocks(dev)
  /\ \A b \in FreeBlocks(dev) :
       /\ {k \in Classes : b \in Filed(dev, k)}
            = {get_size_class(dev.block[b].size, FALSE)}
       /\ \A k \in Classes :
            Cardinality({i \in 1..Len(dev.shader_free_lists[k]) :
                           dev.shader_free_lists[k][i] = b}) <= 1
  /\ \A k \in Classes : \A b \in Filed(dev, k) :
       /\ b \notin Pooled(dev)
       /\ b \in DOMAIN dev.block
       /\ dev.block[b].arena \in ArenaSet(dev)
       /\ \A a \in ArenaSet(dev) : b \notin Allocated(dev, a)

\* holes are filed in two classes, beside an Allocated block, with block
\* descriptors in the pool
FreeListMembershipWitness ==
  /\ Cardinality({k \in Classes : Filed(dev, k) # {}}) >= 2
  /\ \E a \in ArenaSet(dev) : Allocated(dev, a) # {}
  /\ Pooled(dev) # {}

\* C19 as stated: every Free block in class k's free list has a size s with
\* 2^(k+MIN_SIZE_CLASS) <= s < 2^(k+1+MIN_SIZE_CLASS), for every class k.
SizeClassRanges ==
  \A k \in Classes : \A b \in Filed(dev, k) :
    /\ Pow2(k + RADV_SHADER_ALLOC_MIN_SIZE_CLASS) <= dev.block[b].size
    /\ dev.block[b].size < Pow2(k + 1 + RADV_SHADER_ALLOC_MIN_SIZE_CLASS)

\* C19 (size-class ranges), amended: every Free block in class k's free list
\* has a size s >= 2^(k+MIN_SIZE_CLASS), and s < 2^(k+1+MIN_SIZE_CLASS) when
\* k is not the last class; the last class holds every larger size.
SizeClassRangesClamped ==
  \A k \in Classes : \A b \in Filed(dev, k) :
    /\ Pow2(k + RADV_SHADER_ALLOC_MIN_SIZE_CLASS) <= dev.block[b].size
    /\ k < RADV_SHADER_ALLOC_NUM_FREE_LISTS - 1 =>
         dev.block[b].size < Pow2(k + 1 + RADV_SHADER_ALLOC_MIN_SIZE_CLASS)

\* a hole within the range of a class below the last is filed, and a hole
\* in the last class is larger than the range of that class
SizeClassRangesWitness ==
  /\ \E k \in Classes : k < RADV_SHADER_ALLOC_NUM_FREE_LISTS - 1 /\ Filed(dev, k) # {}
  /\ \E b \in Filed(dev, RADV_SHADER_ALLOC_NUM_FREE_LISTS - 1) :
       dev.block[b].size >= Pow2(RADV_SHADER_ALLOC_NUM_FREE_LISTS
                                   + RADV_SHADER_ALLOC_MIN_SIZE_CLASS)

\* C20 (non-emptiness bitmask): between calls bit k of shader_free_list_mask
\* is set exactly when class k's free list is not empty, and no bit at
\* position RADV_SHADER_ALLOC_NUM_FREE_LISTS or above is set.
MaskMatchesLists ==
  /\ \A k \in Classes :
       Bit(dev.shader_free_list_mask, k) = 1 <=> dev.shader_free_lists[k] # <<>>
  /\ dev.shader_free_list_mask < Pow2(RADV_SHADER_ALLOC_NUM_FREE_LISTS)
  /\ dev.shader_free_list_mask >= 0

\* a class holds two holes, the bit of another class is clear, and block
\* descriptors are in the pool (a merge has removed a hole)
MaskMatchesListsWitness ==
  /\ \E k \in Classes : Len(dev.shader_free_lists[k]) >= 2
  /\ \E k \in Classes : Bit(dev.shader_free_list_mask, k) = 0
  /\ Pooled(dev) # {}

----------------------------------------------------------------------------
(* Properties of the search, the split, the merge and the arenas *)

\* the non-empty classes at or above the round-up class of a request
SearchedClasses(d, size) ==
  {k \in Classes : /\ k >= get_size_class(Aligned(size), TRUE)
                    /\ d.shader_free_lists[k] # <<>>}

\* the lowest of them, and its list
LowestClass(d, size) ==
  CHOOSE k \in SearchedClasses(d, size) : \A j \in SearchedClasses(d, size) : k <= j

LowestList(d, size) == d.shader_free_lists[LowestClass(d, size)]

\* the positions in that list of the holes large enough for the request
Fitting(d, size) ==
  {i \in 1..Len(LowestList(d, size)) :
     d.block[LowestList(d, size)[i]].size >= Aligned(size)}

\* the block returned is carved from the front of hole b of d
CarvedFrom(d, b, r) ==
  /\ r.ret # NULL
  /\ HeldKey(r.dev, r.ret) = HeldKey(d, b)
  /\ r.dev.ws = d.ws
  /\ r.dev.shader_arenas = d.shader_arenas

\* the block returned is at the place of no hole filed below the round-up
\* class of the request
BelowUntaken(d, size, r) ==
  r.ret # NULL =>
    \A k \in Classes : \A b \in Filed(d, k) :
      k < get_size_class(Aligned(size), TRUE) => HeldKey(r.dev, r.ret) # HeldKey(d, b)

TakenHole(d, size) ==
  IF SearchedClasses(d, size) = {} \/ Fitting(d, size) = {} THEN NULL
  ELSE LowestList(d, size)[CHOOSE i \in Fitting(d, size) :
                             \A j \in Fitting(d, size) : i <= j]

\* a block as the arena order shows it, and a hole as a free list shows it
BlockEntry(offset, size, free, owner) ==
  [offset |-> offset, size |-> size, free |-> free, owner |-> owner]

HoleEntry(d, arena, offset, size) == <<IndexOf(d.shader_arenas, arena), offset, size>>

\* the sequence s with the element at position j replaced by the elements of t
Spliced(s, j, t) == SubSeq(s, 1, j - 1) \o t \o SubSeq(s, j + 1, Len(s))

\* a request splits the hole it takes
Splits(d, size) ==
  /\ TakenHole(d, size) # NULL
  /\ d.block[TakenHole(d, size)].size > Aligned(size)

\* C22 (split): when alloc takes a hole H larger than the aligned request,
\* the block returned is Allocated with the owner passed and covers
\* [H.offset, H.offset+size); a Free remainder covers
\* [H.offset+size, H.offset+H.size) and follows it at once in the arena
\* order; the remainder is filed under get_size_class(remainder size, false)
\* and the hole H is in no list any more; every other block, arena and
\* free-list entry is as before.
SplitExact ==
  \A size \in ReqSizes, ptr \in Ptrs :
    Splits(dev, size) =>
      \A r \in {radv_alloc_shader_memory(dev, size, ptr, EnvOk)} :
        \A h \in {dev.block[TakenHole(dev, size)]} :
          \A a \in {IndexOf(dev.shader_arenas, h.arena)} :
            \A j \in {IndexOf(Entries(dev, h.arena), TakenHole(dev, size))} :
              /\ r.ret # NULL
              /\ HeldKey(r.dev, r.ret) = <<dev.arena[h.arena].bo, h.offset>>
              /\ r.dev.ws = dev.ws
              /\ ArenaView(r.dev) =
                   [ArenaView(dev) EXCEPT ![a].blocks =
                      Spliced(@, j,
                              <<BlockEntry(h.offset, Aligned(size), FALSE, ptr),
                                BlockEntry(h.offset + Aligned(size),
                                           h.size - Aligned(size), TRUE, NULL)>>)]
              /\ \A k \in Classes :
                   FreeListView(r.dev)[k] =
                     (FreeListView(dev)[k] \ {HoleEntry(dev, h.arena, h.offset, h.size)})
                       \cup (IF k = get_size_class(h.size - Aligned(size), FALSE)
                             THEN {HoleEntry(dev, h.arena, h.offset + Aligned(size),
                                             h.size - Aligned(size))}
                             ELSE {})

\* a request splits a hole whose remainder goes to a lower class, beside
\* another arena with a hole of its own
SplitWitness ==
  /\ Len(dev.shader_arenas) = 2
  /\ \E size \in ReqSizes :
       /\ Splits(dev, size)
       /\ get_size_class(dev.block[TakenHole(dev, size)].size - Aligned(size), FALSE)
            < get_size_class(dev.block[TakenHole(dev, size)].size, FALSE)
  /\ Cardinality(UNION {Filed(dev, k) : k \in Classes}) >= 2

\* the positions, in the order of its arena, of the Free neighbours of block
\* b and of b itself: the blocks that the free of b merges
MergedRun(d, b) ==
  LET e == Entries(d, d.block[b].arena)
      j == IndexOf(e, b)
  IN  {i \in {j - 1, j, j + 1} : i \in 1..Len(e) /\ (i = j \/ IsFree(d, e[i]))}

RunFirst(d, b) == CHOOSE i \in MergedRun(d, b) : \A k \in MergedRun(d, b) : i <= k

RunLast(d, b) == CHOOSE i \in MergedRun(d, b) : \A k \in MergedRun(d, b) : i >= k

RECURSIVE SumSizes(_, _, _, _)
SumSizes(d, e, i, last) ==
  IF i > last THEN 0 ELSE d.block[e[i]].size + SumSizes(d, e, i + 1, last)

\* the free of b leaves b's arena in the arena set
ArenaSurvives(d, b) == Allocated(d, d.block[b].arena) # {b}

\* C23 (free-side merge): when free(b) does not destroy the arena, the arena
\* order afterwards is the order before with b and its Free immediate
\* neighbours replaced by one Free block covering the union of their ranges;
\* the free lists lose the neighbours and gain the merged block in
\* get_size_class(merged size, false); one descriptor per neighbour absorbed
\* goes to the pool, linked in no arena and in no free list, and none is
\* lost; every other block, arena and list entry is as before.
MergeExact ==
  \A b \in held :
    ArenaSurvives(dev, b) =>
      \A d \in {radv_free_shader_memory(dev, b)} :
        \A ar \in {dev.block[b].arena} :
          \A e \in {Entries(dev, ar)} :
            \A lo \in {RunFirst(dev, b)} : \A hi \in {RunLast(dev, b)} :
              \A size \in {SumSizes(dev, e, lo, hi)} :
                /\ d.ws = dev.ws
                /\ d.shader_arenas = dev.shader_arenas
                /\ ArenaView(d) =
                     [ArenaView(dev) EXCEPT
                        ![IndexOf(dev.shader_arenas, ar)].blocks =
                           SubSeq(@, 1, lo - 1)
                             \o <<BlockEntry(dev.block[e[lo]].offset, size, TRUE, NULL)>>
                             \o SubSeq(@, hi + 1, Len(@))]
                /\ \A k \in Classes :
                     FreeListView(d)[k] =
                       (FreeListView(dev)[k]
                          \ {HoleEntry(dev, ar, dev.block[e[i]].offset, dev.block[e[i]].size) :
                               i \in MergedRun(dev, b)})
                         \cup (IF k = get_size_class(size, FALSE)
                               THEN {HoleEntry(dev, ar, dev.block[e[lo]].offset, size)}
                               ELSE {})
                /\ Len(d.shader_block_obj_pool) = Len(dev.shader_block_obj_pool) + (hi - lo)
                /\ Cardinality(Pooled(d)) = Len(d.shader_block_obj_pool)
                /\ Pooled(dev) \subseteq Pooled(d)
                /\ Pooled(d) \cap Linked(d) = {}
                /\ \A k \in Classes : Pooled(d) \cap Filed(d, k) = {}
                /\ DOMAIN d.block = DOMAIN dev.block
                /\ Linked(d) \cup Pooled(d) = Linked(dev) \cup Pooled(dev)

\* a held block lies between two Free blocks, beside another held block of
\* the same arena
MergeWitness ==
  \E b \in held :
    /\ ArenaSurvives(dev, b)
    /\ Cardinality(MergedRun(dev, b)) = 3


\* the successful allocs of hist before the i-th that created a buffer
CreatedBefore(i) == {j \in 1..(i - 1) : hist[j].created}

\* C24: every arena an alloc creates for the aligned size n while the growth
\* shift is g has the size max(n, MIN_ARENA_SIZE << min(g, MAX_ARENA_SIZE_SHIFT)),
\* which is never below n, and the k-th arena created (from 0) is created
\* with g = k
ArenaSizing ==
  \A i \in 1..Len(hist) :
    hist[i].created =>
      LET k == Cardinality(CreatedBefore(i))
      IN  /\ hist[i].shift = k
          /\ hist[i].arena_size =
               MAX2(hist[i].size,
                    RADV_SHADER_ALLOC_MIN_ARENA_SIZE
                      * Pow2(MIN2(k, RADV_SHADER_ALLOC_MAX_ARENA_SIZE_SHIFT)))
          /\ hist[i].arena_size >= hist[i].size

\* seven arenas were created, one of them of the size of a request above
\* the arena size of its shift, and the last two of the capped size
ArenaSizingWitness ==
  /\ Len(hist) = MaxArenas
  /\ \A i \in 1..Len(hist) : hist[i].created
  /\ \E i \in 1..Len(hist) :
       /\ hist[i].arena_size = hist[i].size
       /\ hist[i].size > RADV_SHADER_ALLOC_MIN_ARENA_SIZE * Pow2(hist[i].shift)
  /\ hist[6].arena_size = hist[7].arena_size
  /\ hist[7].shift = 6
  /\ dev.ws.created > MaxArenas

\* the buffers of the arenas d2 has and d1 has not
NewBuffers(d1, d2) ==
  {d2.arena[a].bo : a \in ArenaSet(d2)} \ {d1.arena[a].bo : a \in ArenaSet(d1)}

\* C25: over the calls of alloc and free the growth shift never decreases; it
\* grows by one in an alloc that creates an arena and keeps its value in an
\* alloc served from a hole, in a failed alloc and in a free, also a free
\* that destroys an arena
ShiftMonotone ==
  [][/\ dev'.shader_arena_shift >= dev.shader_arena_shift
     /\ dev'.shader_arena_shift =
          dev.shader_arena_shift + Cardinality(NewBuffers(dev, dev'))
     /\ \A size \in ReqSizes, ptr \in Ptrs, env \in Envs :
          \A r \in {radv_alloc_shader_memory(dev, size, ptr, env)} :
            r.dev.shader_arena_shift =
              dev.shader_arena_shift
                + (IF r.ret # NULL /\ find_hole(dev, Aligned(size)) = NULL
                   THEN 1 ELSE 0)
     /\ \A b \in held :
          radv_free_shader_memory(dev, b).shader_arena_shift
            = dev.shader_arena_shift]_vars

\* two arenas were created, a hole served a block since, and a free
\* destroyed one of the arenas
ShiftMonotoneWitness ==
  /\ dev.shader_arena_shift = 2
  /\ Len(dev.shader_arenas) = 1
  /\ Cardinality(held) = 2
  /\ \E b \in held : dev.block[b].offset > 0

\* the arena a call added to d: the last of r.dev, when it is new
CreatedArena(d, r) ==
  IF Len(r.dev.shader_arenas) = Len(d.shader_arenas) + 1
  THEN r.dev.shader_arenas[Len(r.dev.shader_arenas)] ELSE NULL

\* C26: an arena of size A created for the aligned size n holds the blocks
\* [Allocated(0, n), Free(n, A - n)], the Free one filed in its size class,
\* when A > n, and the one block [Allocated(0, n)] with no free list touched
\* when A = n; the Allocated block is the one returned
InitialCarve ==
  \A size \in ReqSizes \cup GrowthSizes, ptr \in Ptrs :
    find_hole(dev, Aligned(size)) = NULL =>
      \A r \in {radv_alloc_shader_memory(dev, size, ptr, EnvOk)} :
        LET n == Aligned(size)
            a == CreatedArena(dev, r)
            i == Len(r.dev.shader_arenas)
        IN  /\ r.ret # NULL /\ a # NULL
            /\ SubSeq(ArenaView(r.dev), 1, i - 1) = ArenaView(dev)
            /\ LET A == ArenaView(r.dev)[i].size
                    blocks == ArenaView(r.dev)[i].blocks
                IN  /\ Entries(r.dev, a)[1] = r.ret
                    /\ blocks[1] = BlockEntry(0, n, FALSE, ptr)
                    /\ A >= n
                    /\ A > n =>
                         /\ Len(blocks) = 2
                         /\ blocks[2].offset = n /\ blocks[2].size = A - n
                         /\ blocks[2].free
                         /\ FreeListView(r.dev) =
                              [FreeListView(dev) EXCEPT
                                 ![get_size_class(A - n, FALSE)] = @ \cup {<<i, n, A - n>>}]
                    /\ A = n =>
                         /\ Len(blocks) = 1
                         /\ FreeListView(r.dev) = FreeListView(dev)

\* an arena that is one Allocated block, and after it an arena that is an
\* Allocated block and the Free rest, filed
InitialCarveWitness ==
  /\ Len(dev.shader_arenas) = 2
  /\ Len(ArenaView(dev)[1].blocks) = 1
  /\ ~ArenaView(dev)[1].blocks[1].free
  /\ ArenaView(dev)[1].blocks[1].size = ArenaView(dev)[1].size
  /\ Len(ArenaView(dev)[2].blocks) = 2
  /\ ~ArenaView(dev)[2].blocks[1].free
  /\ ArenaView(dev)[2].blocks[2].free
  /\ ArenaView(dev)[2].blocks[2].size
       = ArenaView(dev)[2].size - ArenaView(dev)[2].blocks[1].size
  /\ \E k \in Classes : <<2, ArenaView(dev)[2].blocks[2].offset,
                            ArenaView(dev)[2].blocks[2].size>> \in FreeListView(dev)[k]

\* every block linked in an arena of d is aligned and not empty
BlocksAligned(d) ==
  \A b \in Linked(d) :
    /\ d.block[b].offset % RADV_SHADER_ALLOC_ALIGNMENT = 0
    /\ d.block[b].size % RADV_SHADER_ALLOC_ALIGNMENT = 0
    /\ d.block[b].size > 0

\* a size as quotient and remainder by the alignment
SplitSize(size) ==
  [q |-> size \div RADV_SHADER_ALLOC_ALIGNMENT, r |-> size % RADV_SHADER_ALLOC_ALIGNMENT]

\* sizes the model has numbers for
SmallSizes == {SplitSize(size) : size \in ReqSizes \cup GrowthSizes \cup {1, 255, 256, 257}}

\* the sizes 2^32 - 255 and 2^32 - 1, the ends of the range above the last
\* multiple of the alignment a uint32_t holds
TopSizes ==
  {[q |-> (Pow2(30) \div RADV_SHADER_ALLOC_ALIGNMENT) * 4 - 1, r |-> r] :
     r \in {1, RADV_SHADER_ALLOC_ALIGNMENT - 1}}

\* a call for the size w leaves every block aligned and not empty and
\* returns a block of w rounded up to the alignment
RoundsUp(d, w) ==
  \A env \in Envs :
    \A r \in {radv_alloc_shader_memory_split(d, w.q, w.r, NULL, env)} :
      /\ BlocksAligned(r.dev)
      /\ r.ret # NULL =>
           /\ r.dev.block[r.ret].size % RADV_SHADER_ALLOC_ALIGNMENT = 0
           /\ r.dev.block[r.ret].size \div RADV_SHADER_ALLOC_ALIGNMENT
                = w.q + (IF w.r > 0 THEN 1 ELSE 0)

\* C27: over the calls of alloc with size > 0 and of free, every block of
\* every arena has an offset and a size that are multiples of the alignment
\* and a size above 0, and the block alloc(size) returns has the size
\* rounded up to the next multiple of the alignment
AlignedPositive ==
  /\ BlocksAligned(dev)
  /\ \A w \in SmallSizes \cup TopSizes : RoundsUp(dev, w)

\* the same for the sizes whose rounding up fits a uint32_t
AlignedPositiveBelowTop ==
  /\ BlocksAligned(dev)
  /\ \A w \in SmallSizes : RoundsUp(dev, w)

\* what the call does with a size of TopSizes: a block of size 0 is linked
\* and returned
TopSizeEmptyBlock ==
  \A w \in TopSizes :
    \A r \in {radv_alloc_shader_memory_split(dev, w.q, w.r, NULL, EnvOk)} :
      r.ret # NULL /\ r.ret \in Linked(r.dev) /\ r.dev.block[r.ret].size = 0

\* the block descriptors of d that the host has not got back and the pool
\* does not hold
Unreleased(d) == (DOMAIN d.block) \ Pooled(d)

\* no descriptor of d outside the pool refers to an arena that is gone
ReleasedBeforeDestroy(d) ==
  \A x \in Unreleased(d) : d.block[x].arena \in DOMAIN d.arena

\* a free that destroys the arena of the block leaves no descriptor behind
FreeReleasesDescriptors ==
  \A b \in held :
    \A d \in {radv_free_shader_memory(dev, b)} :
      /\ ReleasedBeforeDestroy(d)
      /\ Unreleased(d) = Linked(d)
      /\ ~ArenaSurvives(dev, b) =>
           /\ dev.arena[dev.block[b].arena].bo \notin DOMAIN d.ws.bo
           /\ \A x \in DOMAIN d.block : x \in Pooled(d) \/ d.block[x].arena # dev.block[b].arena

\* C28: whenever the buffer of an arena is destroyed, by free or by
\* teardown, every block descriptor of the arena has been released before
\* (to the pool or to the host): none refers to a destroyed arena, none is
\* leaked
DestroyAfterRelease ==
  /\ FreeReleasesDescriptors
  /\ \A d \in {radv_destroy_shader_arenas(dev)} :
       /\ DOMAIN d.ws.bo = {}
       /\ ReleasedBeforeDestroy(d)

\* what teardown leaves: the descriptors linked in the arenas, all of them
TeardownLeavesLinked ==
  \A d \in {radv_destroy_shader_arenas(dev)} :
    /\ d.shader_arenas = dev.shader_arenas
    /\ DOMAIN d.arena = {}
    /\ DOMAIN d.block = Linked(dev)

\* the calls the winsys of d logged for the buffer bo, oldest first
OpsOf(d, bo) ==
  LET calls == SelectSeq(d.ws.log, LAMBDA e : e[2] = bo)
  IN  [i \in 1..Len(calls) |-> calls[i][1]]

IsPrefix(s, t) == Len(s) <= Len(t) /\ SubSeq(t, 1, Len(s)) = s

\* the states to look at: between two calls, and after teardown
LoggedStates == {dev, radv_destroy_shader_arenas(dev)}

\* C29 as claimed: the calls on every buffer the allocator creates come in
\* the order create, map, unmap, destroy (create, destroy when the map
\* failed): every destruction of a mapped buffer, in free, in teardown and
\* on the failure path of alloc, comes after its unmap
ProtocolOrder ==
  \A d \in LoggedStates : \A bo \in 1..d.ws.created :
    \/ IsPrefix(OpsOf(d, bo), <<"create", "map", "unmap", "destroy">>)
    \/ OpsOf(d, bo) = <<"create", "destroy">>

\* C29 amended: the calls on every buffer come in the order create, map,
\* destroy (create, destroy when the map failed) and no unmap is ever
\* called; between two calls the buffers not yet destroyed are those of the
\* arenas of the set, created and mapped; teardown destroys them all
ProtocolOrderNoUnmap ==
  /\ \A d \in LoggedStates : \A i \in 1..Len(d.ws.log) :
       d.ws.log[i][1] \in {"create", "map", "destroy"}
  /\ dev.ws.misuse = 0
  /\ \A bo \in 1..dev.ws.created :
       IF bo \in {dev.arena[a].bo : a \in ArenaSet(dev)}
       THEN /\ OpsOf(dev, bo) = <<"create", "map">>
            /\ OpsOf(radv_destroy_shader_arenas(dev), bo) = <<"create", "map", "destroy">>
       ELSE /\ OpsOf(dev, bo) \in {<<"create", "map", "destroy">>, <<"create", "destroy">>}
            /\ OpsOf(radv_destroy_shader_arenas(dev), bo) = OpsOf(dev, bo)

\* a buffer whose map failed and a buffer destroyed after its map
ProtocolOrderWitness ==
  /\ \E bo \in 1..dev.ws.created : OpsOf(dev, bo) = <<"create", "destroy">>
  /\ \E bo \in 1..dev.ws.created : OpsOf(dev, bo) = <<"create", "map", "destroy">>
  /\ dev.shader_arena_shift = 1

\* the blocks of the arena a of d, in order, as the descriptors hold them
ArenaBlocks(d, a) == [j \in 1..Len(Entries(d, a)) |-> d.block[Entries(d, a)[j]]]

\* the call that led from d1 to d2 left the held block b alone: its
\* descriptor, its arena and the buffer of its arena
Untouched(d1, d2, b) ==
  /\ b \in DOMAIN d2.block /\ d2.block[b] = d1.block[b]
  /\ b \in Linked(d2)
  /\ d1.block[b].arena \in ArenaSet(d2)
  /\ d2.arena[d1.block[b].arena].bo = d1.arena[d1.block[b].arena].bo
  /\ d2.arena[d1.block[b].arena].bo \in DOMAIN d2.ws.bo
  /\ d2.ws.bo[d2.arena[d1.block[b].arena].bo] = d1.ws.bo[d1.arena[d1.block[b].arena].bo]

\* the call left every arena of d1 other than a as it was
OthersUnchanged(d1, d2, a) ==
  \A x \in ArenaSet(d1) \ {a} :
    /\ x \in ArenaSet(d2)
    /\ ArenaBlocks(d2, x) = ArenaBlocks(d1, x)
    /\ d2.arena[x] = d1.arena[x]

\* C30: while a block returned by alloc is not freed, no alloc and no free
\* of another block changes its arena, offset, size, tag or owner or
\* destroys its arena or the buffer of it; a call that works inside one
\* arena leaves the blocks of every other arena as they were
StableHandles ==
  [][/\ \A size \in ReqSizes, ptr \in Ptrs, env \in Envs :
          \A r \in {radv_alloc_shader_memory(dev, size, ptr, env)} :
            /\ \A b \in held : Untouched(dev, r.dev, b)
            /\ OthersUnchanged(dev, r.dev,
                                IF r.ret = NULL THEN NULL ELSE r.dev.block[r.ret].arena)
     /\ \A c \in held :
          \A d \in {radv_free_shader_memory(dev, c)} :
            /\ \A b \in held \ {c} : Untouched(dev, d, b)
            /\ OthersUnchanged(dev, d, dev.block[c].arena)
     /\ Cardinality({b \in held :
                       ~\E c \in held' :
                          /\ HeldKey(dev', c) = HeldKey(dev, b)
                          /\ dev'.block[c].size = dev.block[b].size
                          /\ ~IsFree(dev', c)
                          /\ dev'.block[c].freelist_next = dev.block[b].freelist_next})
          <= (IF Cardinality(held') < Cardinality(held) THEN 1 ELSE 0)]_vars

\* a held block with a Free block on either side, and another held block in
\* a second arena
StableHandlesWitness ==
  /\ Len(dev.shader_arenas) = 2
  /\ \E b \in held, c \in held :
       /\ dev.block[b].arena # dev.block[c].arena
       /\ LET e == Entries(dev, dev.block[b].arena)
               i == IndexOf(e, b)
           IN  /\ 1 < i /\ i < Len(e)
               /\ IsFree(dev, e[i - 1]) /\ IsFree(dev, e[i + 1])

\* the buffer of the arena a of d is alive in d2
BufferAlive(d, d2, a) == d.arena[a].bo \in DOMAIN d2.ws.bo

\* C31: free destroys the buffer of an arena only when, after the merge, the
\* arena has no Allocated block; between calls every arena of the set has an
\* Allocated block, and the arena of every Allocated block is in the set
\* with its buffer alive
NoPrematureDestroy ==
  /\ \A a \in ArenaSet(dev) : Allocated(dev, a) # {} /\ BufferAlive(dev, dev, a)
  /\ \A x \in (DOMAIN dev.block) \ Pooled(dev) :
       ~IsFree(dev, x) =>
         /\ dev.block[x].arena \in ArenaSet(dev)
         /\ x \in Allocated(dev, dev.block[x].arena)
         /\ BufferAlive(dev, dev, dev.block[x].arena)
  /\ \A c \in held :
       \A d \in {radv_free_shader_memory(dev, c)} :
         LET a == dev.block[c].arena
         IN  /\ ~BufferAlive(dev, d, a) <=> Allocated(dev, a) = {c}
             /\ BufferAlive(dev, d, a) =>
                  /\ a \in ArenaSet(d)
                  /\ Allocated(d, a) = Allocated(dev, a) \ {c}
             /\ \A x \in ArenaSet(dev) \ {a} : x \in ArenaSet(d) /\ BufferAlive(dev, d, x)

\* a free destroyed one of two arenas; in the arena left a hole comes first
\* and a held block after it
NoPrematureDestroyWitness ==
  /\ dev.shader_arena_shift = 2
  /\ Len(dev.shader_arenas) = 1
  /\ IsFree(dev, Entries(dev, dev.shader_arenas[1])[1])
  /\ held # {}

\* the places of a call whose next statement is mtx_unlock
UnlockPcs == {"a_unlock", "f_unlock", "s_unlock_hit", "s_unlock_end"}

\* thread t takes the step
Moves(t) == thr'[t].pc # thr[t].pc

\* C32: on every path of alloc, free and radv_find_shader, early returns,
\* failures and the lookup whose address is in an Allocated block but in
\* none of the owner's shaders included, the mutex is locked once and
\* unlocked once, and no thread unlocks it without holding it
LockDiscipline ==
  [][\A t \in Threads :
       Moves(t) =>
         /\ thr[t].pc \in UnlockPcs => mutex = t
         /\ thr'[t].pc = "idle" =>
              /\ thr[t].locks = 1
              /\ thr[t].unlocks + (IF thr[t].pc \in UnlockPcs THEN 1 ELSE 0) = 1]_vars

\* the places of a lookup whose next statements read block fields or follow
\* list links
ReadPcs == {"s_scan", "s_owner", "s_rest"}

\* C33: radv_find_shader reads block fields (tag, offset, size, owner) and
\* follows the links of the arena and block lists only while it holds the
\* mutex, so that it never sees a block a concurrent free or alloc retagged,
\* merged or recycled
LookupReadsLocked ==
  [][\A t \in Threads :
       Moves(t) /\ thr[t].pc \in ReadPcs =>
         /\ mutex = t
         /\ thr[t].pc # "s_scan" => StillAllocated(dev, thr[t].blk)]_vars

\* the part of it that holds: the loops up to the block found run under the
\* mutex
LookupScanLocked ==
  [][\A t \in Threads : Moves(t) /\ thr[t].pc = "s_scan" => mutex = t]_vars

\* the owner is read from a block that a free released after the lookup
\* found it
LookupReadsFreed ==
  \E t \in Threads : thr[t].pc = "s_owner" /\ ~StillAllocated(dev, thr[t].blk)

\* C34: every call of alloc, free and radv_find_shader terminates, and under
\* weak fairness every thread in a call returns in the end, the mutex
\* released
Termination ==
  \A t \in Threads : (thr[t].pc # "idle") ~> (thr[t].pc = "idle" /\ mutex # t)

\* the part of it that holds: a lookup that is not in the fault returns or
\* faults
LookupEndsOrFaults ==
  \A t \in Threads : (thr[t].pc # "idle") ~> (thr[t].pc \in {"idle", "s_crash"})

\* a lookup ended in the fault: the call does not return
LookupFaulted == \E t \in Threads : thr[t].pc = "s_crash"

\* C35: for every uint32_t size above 0 the size alloc uses after rounding
\* up to the alignment is at least the size requested, so that the block
\* returned is never smaller than the request
RoundingNoWrap ==
  fn.called => \/ fn.units > fn.q
               \/ fn.units = fn.q /\ fn.r = 0

\* the same for the sizes up to the last multiple of the alignment of the
\* word, which round to the next multiple
RoundingBelowTop ==
  fn.called /\ ~(fn.q = (Pow2(30) \div RADV_SHADER_ALLOC_ALIGNMENT) * 4 - 1 /\ fn.r > 0)
    => fn.units = fn.q + (IF fn.r > 0 THEN 1 ELSE 0)

\* the sizes above the last multiple round to 0
RoundingTopIsZero ==
  fn.called /\ fn.q = (Pow2(30) \div RADV_SHADER_ALLOC_ALIGNMENT) * 4 - 1 /\ fn.r > 0
    => fn.units = 0

\* the number of places the arenas of d link descriptors in
LinkCount(d) ==
  LET all == Flatten(d.shader_arenas, [a \in DOMAIN d.arena |-> d.arena[a].entries])
  IN  Len(all)

\* every descriptor of d is in the pool or linked in one arena, once
Partitioned(d) ==
  /\ Pooled(d) \cap Linked(d) = {}
  /\ Pooled(d) \cup Linked(d) = DOMAIN d.block
  /\ Len(d.shader_block_obj_pool) = Cardinality(Pooled(d))
  /\ LinkCount(d) = Cardinality(Linked(d))
  /\ \A b \in Linked(d) : b \in {Entries(d, d.block[b].arena)[j] :
                                     j \in 1..Len(Entries(d, d.block[b].arena))}

\* C36: between calls a descriptor is either in the pool or linked in the
\* blocks of exactly one arena, never both and never twice; alloc_block_obj
\* asks the host for a descriptor only when the pool is empty; over calls of
\* alloc and free that do not fail the descriptors got from the host are
\* those in the pool and those linked: none goes back to the host, none is
\* lost
PoolDiscipline ==
  /\ Partitioned(dev)
  /\ \A ok \in BOOLEAN :
       \A r \in {alloc_block_obj(dev, ok)} :
         IF dev.shader_block_obj_pool # <<>>
         THEN /\ r[2] = Head(dev.shader_block_obj_pool)
              /\ DOMAIN r[1].block = DOMAIN dev.block
         ELSE ok => /\ r[2] \notin DOMAIN dev.block
                    /\ DOMAIN r[1].block = (DOMAIN dev.block) \cup {r[2]}
  /\ \A size \in ReqSizes, ptr \in Ptrs :
       \A r \in {radv_alloc_shader_memory(dev, size, ptr, EnvOk)} :
         LET needed == LinkCount(r.dev) - LinkCount(dev)
             pool == Len(dev.shader_block_obj_pool)
         IN  /\ r.ret # NULL
             /\ Partitioned(r.dev)
             /\ DOMAIN dev.block \subseteq DOMAIN r.dev.block
             /\ Cardinality((DOMAIN r.dev.block) \ DOMAIN dev.block) = MAX2(0, needed - pool)
             /\ Len(r.dev.shader_block_obj_pool) = MAX2(0, pool - needed)
  /\ \A b \in held :
       \A d \in {radv_free_shader_memory(dev, b)} :
         /\ Partitioned(d)
         /\ DOMAIN d.block = DOMAIN dev.block

\* one descriptor is pooled, others are linked, and a request needs a new
\* arena: one descriptor from the pool and one from the host
PoolDisciplineWitness ==
  /\ Len(dev.shader_block_obj_pool) = 1
  /\ Linked(dev) # {}
  /\ \E size \in ReqSizes :
       /\ find_hole(dev, Aligned(size)) = NULL
       /\ LinkCount(radv_alloc_shader_memory(dev, size, NULL, EnvOk).dev)
            = LinkCount(dev) + 2

============================================================================
